---- MODULE Spec2Model ----
(***************************************************************************)
(* Model of the Entrolytics Next.js SDK.                                   *)
(*                                                                         *)
(*   - the client tracking provider (EntrolyticsProvider): React state,    *)
(*     refs, the closures of the last render, requests in flight, pending  *)
(*     navigation timers;                                                  *)
(*   - the server helpers (trackServerEvent, ...);                         *)
(*   - the <Analytics /> component and the config plugin's environment;    *)
(*   - the collect proxy (createProxyHandler);                             *)
(*   - the request middleware (withEntrolyticsMiddleware) and             *)
(*     composeMiddleware;                                                  *)
(*   - the hooks, components and wrappers built on them.                   *)
(*                                                                         *)
(* Strings that the code takes apart (host, URL, route pattern) are        *)
(* sequences of characters or tokens; every other string is a TLA+ string. *)
(* JavaScript's undefined is the string None.                              *)
(***************************************************************************)
EXTENDS Integers, Sequences, FiniteSets, TLC

VARIABLES
  \* ---- provider -------------------------------------------------------
  cfg,            \* the provider's props
  env,            \* the browser around it: hostname, Do-Not-Track, localStorage, referrer
  phase,          \* "constructed" (first render done) | "mounted" (mount effects ran)
  isReady,        \* useState
  isEnabled,      \* useState
  currentTag,     \* useState
  identity,       \* useState
  cacheRef,       \* useRef: cache token
  currentUrlRef,  \* useRef: last-known URL
  currentRefRef,  \* useRef: referrer
  rendered,       \* the state values captured by the callbacks of the last render
  location,       \* window.location
  timers,         \* pending setTimeout(() => track(), 300) callbacks, oldest first
  inflight,       \* fetches awaiting their outcome
  stepsLeft,      \* how many more calls and navigations the run makes
  \* ---- provider, history variables ------------------------------------
  last,           \* what the step just taken did: a run of send, or a handled fetch outcome
  lastToken,      \* cache token of the last handled response that carried one
  tokenSinceId,   \* the same, forgotten at every identify with a string ID
  disabledSeen,   \* a response with a truthy `disabled` was handled
  rejected,       \* a promise returned by a tracking function rejected
  \* ---- server helpers ------------------------------------------------
  srvPending,     \* helper calls whose fetch is in flight
  srvDone,        \* the helper call settled last: the fetch outcome and what the helper returned
  \* ---- <Analytics /> and the config plugin ----------------------------
  anaProps,       \* the props given to <Analytics />
  anaEnv,         \* process.env
  anaOut,         \* what <Analytics /> rendered last
  \* ---- collect proxy --------------------------------------------------
  pxCfg,          \* createProxyHandler's config
  pxPending,      \* how many POSTs are waiting for the collector's answer
  pxDone,         \* what the proxy did last: the body it forwarded, or its response
  \* ---- middleware -----------------------------------------------------
  mwCfg,          \* withEntrolyticsMiddleware's config
  mwPending,      \* how many tracking fetches are in flight
  mwReturn,       \* the handler call made last: what it was given and what it returned
  mwSettled,      \* how the tracking fetch that settled last ended
  \* ---- hooks, components and wrappers, one record each ----------------
  pv,             \* a component using usePageView: props, context, refs, effect deps
  te,             \* a <TrackEvent once>: its ref and the track calls it made
  wf,             \* a call of a function wrapped by withFormTracking
  rep,            \* a reporter of createWebVitalsReporter: queue, timeout, batches sent
  plug,           \* withEntrolytics(pluginConfig)(nextConfig): input and result
  hook,           \* the request useWebVitals / useFormTracking issued last
  \* ---- further handlers, hooks and components, one record each ----------
  cm,             \* a call of a handler made by composeMiddleware
  ph,             \* a call of a handler of createProxyHandler / createScriptProxy
  ft,             \* a form using useFormTracking: its options, stateRef, events sent
  ol,             \* a click on an <OutboundLink>: the event, tracking calls, navigation
  ct              \* the provider's cache token with every request numbered

provVars == <<cfg, env, phase, isReady, isEnabled, currentTag, identity, cacheRef,
              currentUrlRef, currentRefRef, rendered, location, timers, inflight,
              stepsLeft, last, lastToken, tokenSinceId, disabledSeen, rejected>>

srvVars == <<srvPending, srvDone>>
anaVars == <<anaProps, anaEnv, anaOut>>
pxVars == <<pxCfg, pxPending, pxDone>>
mwVars == <<mwCfg, mwPending, mwReturn, mwSettled>>

extVars == <<pv, te, wf, rep, plug, hook>>

moreVars == <<cm, ph, ft, ol, ct>>

vars == <<provVars, srvVars, anaVars, pxVars, mwVars, extVars, moreVars>>

None == "none"

\* ---- bounds -------------------------------------------------------------
MaxSteps == 2          \* calls and navigations of a run of SpecProvider
MaxConfigSteps == 1    \* the same, where the configuration varies
MaxInflight == 2
MaxTimers == 2

\* ---- strings ------------------------------------------------------------
Range(s) == {s[i] : i \in 1..Len(s)}

\* faulty variant: s.replace(/\/+$/, ''), every trailing slash removed
StripEverySlash(s) == SelectSeq(s, LAMBDA x : x # "/")

\* s.replace(/\/$/, ''): one trailing slash removed
StripTrailingSlash(s) ==
  IF Len(s) > 0 /\ s[Len(s)] = "/" THEN SubSeq(s, 1, Len(s) - 1) ELSE s

\* ---- URLs ---------------------------------------------------------------
\* window.location is [path, search, hash]; a URL string is the sequence of its
\* non-empty parts, '' is << >>.
Part(x) == IF x = "" THEN << >> ELSE <<x>>
UrlString(path, search, hash) == Part(path) \o Part(search) \o Part(hash)

\* the URL the provider records for a location (init effect and handleNavigation)
NormalizedUrl(loc) ==
  LET u0 == [path |-> loc.path, search |-> loc.search, hash |-> loc.hash]
      \* excludeSearch: urlObj.search = ''; url = pathname + hash
      u1 == IF cfg.excludeSearch THEN [u0 EXCEPT !.search = ""] ELSE u0
      \* excludeHash: urlObj.hash = ''; url = pathname + search
      u2 == IF cfg.excludeHash THEN [u1 EXCEPT !.hash = ""] ELSE u1
  IN UrlString(u2.path, u2.search, u2.hash)

Origin == "https://app"

\* ---- provider: configuration and environment --------------------------------
NoProxy == [isObject |-> FALSE, enabled |-> FALSE, collectPath |-> << >>]

\* EntrolyticsConfig (props of the provider) as used by the model
BaseCfg ==
  [websiteId |-> "W", linkId |-> None, pixelId |-> None,
   host |-> <<"https://c">>, autoTrack |-> TRUE, tag |-> None, domains |-> << >>,
   excludeSearch |-> FALSE, excludeHash |-> FALSE,
   respectDoNotTrack |-> FALSE, ignoreLocalhost |-> FALSE,
   beforeSend |-> None, outboundLinkEvent |-> "outbound-link-click",
   proxy |-> NoProxy, useEdgeRuntime |-> None]

BaseEnv ==
  [hostname |-> "example.com", navDnt |-> None, msDnt |-> None, winDnt |-> None,
   lsDisabled |-> FALSE, referrer |-> <<"https://ext", "/p">>]

\* navigator.doNotTrack || navigator.msDoNotTrack || window.doNotTrack
\* (None is undefined; every other value here is a non-empty, truthy string)
DoNotTrack ==
  IF env.navDnt # None THEN env.navDnt
  ELSE IF env.msDnt # None THEN env.msDnt
  ELSE env.winDnt

\* ---- provider: pure parts -------------------------------------------------
\* useEdgeRuntime = true by default (destructuring default)
UseEdgeRuntime == cfg.useEdgeRuntime # "false"

endpoint ==
  IF cfg.proxy.isObject /\ cfg.proxy.enabled
  THEN IF cfg.proxy.collectPath # << >> THEN cfg.proxy.collectPath ELSE <<"/api/collect">>
  ELSE LET endpointPath == IF UseEdgeRuntime THEN <<"/api/send-edge">> ELSE <<"/api/send">>
       IN IF cfg.host # << >>
          THEN StripTrailingSlash(cfg.host) \o endpointPath
          ELSE endpointPath

\* faulty variant: ignoreLocalhost knows the name localhost only
checkTrackingDisabledByName(snap) ==
  \/ (cfg.websiteId = None /\ cfg.linkId = None /\ cfg.pixelId = None)
  \/ ~snap.isEnabled
  \/ env.lsDisabled
  \/ (Len(cfg.domains) > 0 /\ env.hostname \notin Range(cfg.domains))
  \/ (cfg.ignoreLocalhost /\ env.hostname = "localhost")
  \/ (cfg.respectDoNotTrack /\ DoNotTrack \in {"1", "yes"})

\* checkTrackingDisabled as evaluated by the callback of the render `snap`
\* (isEnabled is the value that render captured; window, localStorage and
\* navigator are read when it is called)
checkTrackingDisabled(snap) ==
  \/ (cfg.websiteId = None /\ cfg.linkId = None /\ cfg.pixelId = None)
  \/ ~snap.isEnabled
  \/ env.lsDisabled
  \/ (Len(cfg.domains) > 0 /\ env.hostname \notin Range(cfg.domains))
  \/ (cfg.ignoreLocalhost /\ env.hostname \in {"localhost", "127.0.0.1"})
  \/ (cfg.respectDoNotTrack /\ DoNotTrack \in {"1", "yes"})

\* getPayload as evaluated by the callback of the render `snap`
\* (tag and identity are the values that render captured; the refs are read
\* when it is called)
getPayload(snap) ==
  [hostname |-> env.hostname, screen |-> "1920x1080", language |-> "en", title |-> "t",
   url |-> IF currentUrlRef # << >> THEN currentUrlRef
           ELSE UrlString(location.path, location.search, location.hash),
   referrer |-> currentRefRef,
   tag |-> snap.tag, id |-> snap.identity,
   website |-> IF cfg.websiteId # None THEN cfg.websiteId ELSE None,
   link |-> IF cfg.websiteId = None /\ cfg.linkId # None THEN cfg.linkId ELSE None,
   pixel |-> IF cfg.websiteId = None /\ cfg.linkId = None /\ cfg.pixelId # None
             THEN cfg.pixelId ELSE None,
   name |-> None, data |-> None]

\* { ...base, ...over }
Spread(base, over) ==
  [f \in DOMAIN base |-> IF f \in DOMAIN over THEN over[f] ELSE base[f]]

\* The beforeSend callbacks tried: what each returns for (type, payload).
\* ret is "payload", "null" or "undefined".
BeforeSendKinds == {"same", "redact", "null", "undefined", "dropIdentify"}

beforeSend(kind, type, payload) ==
  CASE kind = "same" -> [ret |-> "payload", value |-> payload]
    [] kind = "redact" ->
         [ret |-> "payload",
          value |-> [payload EXCEPT !.url = <<"/redacted">>, !.id = None]]
    [] kind = "null" -> [ret |-> "null", value |-> payload]
    [] kind = "undefined" -> [ret |-> "undefined", value |-> payload]
    [] kind = "dropIdentify" ->
         IF type = "identify" THEN [ret |-> "null", value |-> payload]
         ELSE [ret |-> "payload", value |-> payload]

\* faulty variant: `if (result === null)`
BeforeSendCancelsOnNull(result) == result.ret = "null"

\* `if (!result)`: null and undefined are falsy, a payload object is truthy
BeforeSendCancels(result) == result.ret # "payload"

\* headers: ...(cacheRef.current && { 'x-entrolytics-cache': cacheRef.current })
CacheHeader(cache) == IF cache # None THEN cache ELSE None

\* the fetch call of send
Request(type, finalPayload, cache) ==
  [endpoint |-> endpoint, method |-> "POST",
   type |-> type, payload |-> finalPayload,
   cacheHeader |-> CacheHeader(cache)]

\* ---- provider: fetch outcomes ----------------------------------------------
\* what `await res.json()` yields: null (truthy FALSE) or an object
NullData == [truthy |-> FALSE, disabled |-> FALSE, cache |-> None]
Data(disabled, cache) == [truthy |-> TRUE, disabled |-> disabled, cache |-> cache]

\* a fetch rejects, or resolves with a status and a body that is JSON or not
Outcome(kind, status, data) == [kind |-> kind, status |-> status, data |-> data]

Outcomes ==
  {Outcome("reject", 0, NullData)} \cup
  {Outcome("text", st, NullData) : st \in {200, 500}} \cup
  {Outcome("json", 200, d) :
     d \in {NullData, Data(FALSE, None), Data(TRUE, None), Data(FALSE, "c1"),
            Data(FALSE, "c2")}} \cup
  {Outcome("json", 500, d) : d \in {Data(TRUE, None), Data(FALSE, "c1")}}

\* the try block of send throws: fetch rejected, or res.json() could not parse
SendThrows(out) == out.kind \in {"reject", "text"}

\* `if (data) { if (data.disabled) setIsEnabled(false); ... }`
ResponseEnabled(out, cur) ==
  IF ~SendThrows(out) /\ out.data.truthy /\ out.data.disabled THEN FALSE ELSE cur

\* faulty variant: cacheRef.current = data.cache without the `if (data.cache)`
ResponseCacheOverwrites(out, cur) ==
  IF ~SendThrows(out) /\ out.data.truthy THEN out.data.cache ELSE cur

\* `if (data) { ...; if (data.cache) cacheRef.current = data.cache; }`
ResponseCache(out, cur) ==
  IF ~SendThrows(out) /\ out.data.truthy /\ out.data.cache # None
  THEN out.data.cache ELSE cur

\* faulty variant: send without its catch
SendSettlesUncaught(out) == IF SendThrows(out) THEN "rejected" ELSE "resolved"

\* try { ... } catch (error) { log(...) }: how the promise of send settles
SendSettles(out) == "resolved"

\* ---- provider: state ----------------------------------------------------
\* the values a render's callbacks capture
Snapshot ==
  [isReady |-> isReady, isEnabled |-> isEnabled, tag |-> currentTag, identity |-> identity]

NoPayload ==
  [hostname |-> None, screen |-> None, language |-> None, title |-> None,
   url |-> << >>, referrer |-> << >>, tag |-> None, id |-> None,
   website |-> None, link |-> None, pixel |-> None, name |-> None, data |-> None]

\* where the page loads, and the locations it visits
StartLocation == [path |-> "/a", search |-> "?q", hash |-> "#h"]
OtherPage == [path |-> "/b", search |-> "", hash |-> ""]

\* the provider's state that a tracking call can depend on
ProviderState ==
  <<isEnabled, cacheRef, currentTag, identity, currentUrlRef, currentRefRef>>

\* `last` after a step that neither ran send nor handled a fetch outcome
Nothing == [what |-> "nothing"]

\* ---- the other modules before any of their code has run --------------------
\* Each specification below exercises one module and leaves the others as
\* they are after import: nothing called, nothing in flight.
ServerIdle == srvPending = {} /\ srvDone = Nothing

\* process.env with none of the SDK's variables set
EmptyEnv ==
  [NEXT_PUBLIC_ENTROLYTICS_NG_WEBSITE_ID |-> None,
   NEXT_PUBLIC_ENTROLYTICS_WEBSITE_ID |-> None,
   NEXT_PUBLIC_ENTROLYTICS_HOST |-> None,
   NODE_ENV |-> "production"]

NotRendered == [what |-> "notRendered"]

AnalyticsIdle ==
  /\ anaProps = [websiteId |-> None, host |-> None]
  /\ anaEnv = EmptyEnv
  /\ anaOut = NotRendered

ProxyIdle ==
  /\ pxCfg = [host |-> <<"https://c">>, websiteId |-> None, mode |-> None]
  /\ pxPending = 0
  /\ pxDone = Nothing

MiddlewareIdle ==
  /\ mwCfg = [host |-> <<"https://c">>, websiteId |-> "W", trackRoutes |-> << >>,
              excludeRoutes |-> [given |-> FALSE, routes |-> << >>], tag |-> None]
  /\ mwPending = 0
  /\ mwReturn = Nothing
  /\ mwSettled = None

\* the hooks, components and wrappers before they are used
PvIdle == [mounted |-> FALSE]
TeIdle == [mounted |-> FALSE]
WfIdle == [pc |-> "idle"]
RepIdle == [created |-> FALSE]
PlugIdle == [applied |-> FALSE]
HookIdle == [what |-> "nothing"]
CmIdle == [pc |-> "idle"]
PhIdle == [pc |-> "idle"]
FtIdle == [mounted |-> FALSE]
OlIdle == [pc |-> "idle"]
CtIdle == [mounted |-> FALSE]

ExtIdle ==
  /\ pv = PvIdle /\ te = TeIdle /\ wf = WfIdle
  /\ rep = RepIdle /\ plug = PlugIdle /\ hook = HookIdle

MoreIdle ==
  cm = CmIdle /\ ph = PhIdle /\ ft = FtIdle /\ ol = OlIdle /\ ct = CtIdle

ProviderInit(cfgs, envs, budget) ==
  /\ cfg \in cfgs
  /\ env \in envs
  /\ phase = "constructed"
  /\ isReady = FALSE
  /\ isEnabled = TRUE
  /\ currentTag = cfg.tag
  /\ identity = None
  /\ cacheRef = None
  /\ currentUrlRef = << >>
  /\ currentRefRef = << >>
  /\ rendered = [isReady |-> FALSE, isEnabled |-> TRUE, tag |-> cfg.tag, identity |-> None]
  /\ location = StartLocation
  /\ timers = << >>
  /\ inflight = {}
  /\ stepsLeft = budget
  /\ last = Nothing
  /\ lastToken = None
  /\ tokenSinceId = None
  /\ disabledSeen = FALSE
  /\ rejected = FALSE

\* the provider never mounted
ProviderIdle == ProviderInit({BaseCfg}, {BaseEnv}, 0)

\* everything but the hooks, components and wrappers is untouched
BaseIdle ==
  /\ ProviderIdle /\ ServerIdle /\ AnalyticsIdle /\ ProxyIdle /\ MiddlewareIdle
baseVars == <<provVars, srvVars, anaVars, pxVars, mwVars>>

\* ---- provider: send ------------------------------------------------------
sendVars == <<inflight, last>>

\* send(payload, type) up to and including the fetch call, run by the callback
\* of the render `snap`; `cache` is cacheRef.current at that moment and
\* `tokSince` the history variable tokenSinceId at that moment.
\* `last` records the run: whether the event passed the disablement checks, the
\* calls of beforeSend, whether a request went out, and that request with what
\* was known when it was issued.
send(snap, payload, type, cache, tokSince, via) ==
  LET disabled == checkTrackingDisabled(snap)
      result == beforeSend(cfg.beforeSend, type, payload)
      cancelled == cfg.beforeSend # None /\ BeforeSendCancels(result)
      finalPayload == IF cfg.beforeSend # None THEN result.value ELSE payload
      req == Request(type, finalPayload, cache)
      sent == ~disabled /\ ~cancelled
  IN /\ last' = [what |-> "send", via |-> via, type |-> type, orig |-> payload,
                 passed |-> ~disabled,
                 bsCalls |-> IF ~disabled /\ cfg.beforeSend # None THEN 1 ELSE 0,
                 sent |-> sent,
                 req |-> IF sent THEN req ELSE Request(type, NoPayload, None),
                 wantToken |-> lastToken, wantTokenSinceId |-> tokSince,
                 afterDisabled |-> disabledSeen]
     /\ inflight' = IF sent THEN inflight \cup {req} ELSE inflight

\* a step that does not run send
NoSend == last' = Nothing /\ UNCHANGED inflight

Room == Cardinality(inflight) < MaxInflight
CanCall == stepsLeft > 0 /\ Room

\* ---- provider: mount and render ---------------------------------------------
\* The mount effects: "Initialize URL tracking" records URL and referrer and sets
\* isReady; the auto-track effect sees isReady = false and returns; the history
\* hooks are installed with the first render's track.
MountEffects ==
  /\ UNCHANGED <<srvVars, anaVars, pxVars, mwVars, extVars, moreVars>>
  /\ phase = "constructed"
  /\ phase' = "mounted"
  /\ currentUrlRef' = NormalizedUrl(location)
  /\ currentRefRef' = IF Len(env.referrer) > 0 /\ env.referrer[1] = Origin
                      THEN << >> ELSE env.referrer
  /\ isReady' = TRUE
  /\ UNCHANGED <<cfg, env, isEnabled, currentTag, identity, cacheRef, rendered, location,
                 timers, stepsLeft, lastToken, tokenSinceId, disabledSeen, rejected>>
  /\ NoSend

\* The dependency list of the auto-track effect, [isReady, autoTrack,
\* checkTrackingDisabled, track], differs between two renders: isReady itself,
\* checkTrackingDisabled through isEnabled, track through getPayload's
\* currentTag and identity and through send's checkTrackingDisabled.
AutoTrackDepsChanged(old, new) ==
  \/ old.isReady # new.isReady
  \/ old.isEnabled # new.isEnabled
  \/ old.tag # new.tag
  \/ old.identity # new.identity

\* `if (!isReady || !autoTrack || checkTrackingDisabled()) return; track();`
AutoTrackRuns(old, new) ==
  AutoTrackDepsChanged(old, new) /\ new.isReady /\ cfg.autoTrack
    /\ ~checkTrackingDisabled(new)

\* A re-render after a state change, with its effects: the callbacks now capture
\* the current state, the auto-track effect runs if its dependencies changed and
\* the history hooks are re-installed with the new track.
Render ==
  /\ UNCHANGED <<srvVars, anaVars, pxVars, mwVars, extVars, moreVars>>
  /\ phase = "mounted"
  /\ rendered # Snapshot
  /\ Room
  /\ rendered' = Snapshot
  /\ IF AutoTrackRuns(rendered, Snapshot)
     THEN send(Snapshot, getPayload(Snapshot), "event", cacheRef, tokenSinceId, "effect")
     ELSE NoSend
  /\ UNCHANGED <<cfg, env, phase, isReady, isEnabled, currentTag, identity, cacheRef,
                 currentUrlRef, currentRefRef, location, timers, stepsLeft,
                 lastToken, tokenSinceId, disabledSeen, rejected>>

\* ---- provider: the tracking functions, called through the last render's context
callFrame == <<cfg, env, phase, isReady, isEnabled, currentTag, currentUrlRef,
               currentRefRef, rendered, location, timers, lastToken,
               disabledSeen, rejected>>

\* the arguments tried for track(): none, a name, a name with data, a partial
\* payload, a function of the tracked properties; a partial payload that
\* names a tenant of its own, a function that builds its payload afresh
TrackForms == {"view", "name", "nameData", "object", "function", "objectLink", "functionFresh"}

TrackPayload(form, basePayload) ==
  CASE form = "view" -> basePayload
    [] form = "name" -> [basePayload EXCEPT !.name = "signup"]
    [] form = "nameData" -> [basePayload EXCEPT !.name = "signup", !.data = "plan"]
    [] form = "object" -> Spread(basePayload, [url |-> <<"/custom">>, name |-> "custom"])
    [] form = "function" -> [basePayload EXCEPT !.name = "computed", !.title = "fn"]
    [] form = "objectLink" -> Spread(basePayload, [link |-> "L2", name |-> "custom"])
    [] form = "functionFresh" ->
         [basePayload EXCEPT !.website = None, !.link = None, !.pixel = None,
                             !.tag = None, !.id = None, !.name = "computed"]

CallTrack(form) ==
  /\ UNCHANGED <<srvVars, anaVars, pxVars, mwVars, extVars, moreVars>>
  /\ CanCall
  /\ stepsLeft' = stepsLeft - 1
  /\ send(rendered, TrackPayload(form, getPayload(rendered)), "event", cacheRef,
          tokenSinceId, "track")
  /\ UNCHANGED <<callFrame, identity, cacheRef, tokenSinceId>>

\* `if (url) payload.url = url; if (referrer) payload.referrer = referrer;`
TrackViewPayload(url, referrer, basePayload) ==
  [basePayload EXCEPT !.url = IF url # << >> THEN url ELSE @,
                      !.referrer = IF referrer # << >> THEN referrer ELSE @]

CallTrackView(url, referrer) ==
  /\ UNCHANGED <<srvVars, anaVars, pxVars, mwVars, extVars, moreVars>>
  /\ CanCall
  /\ stepsLeft' = stepsLeft - 1
  /\ send(rendered, TrackViewPayload(url, referrer, getPayload(rendered)), "event",
          cacheRef, tokenSinceId, "trackView")
  /\ UNCHANGED <<callFrame, identity, cacheRef, tokenSinceId>>

\* identify(id, data?): setIdentity(id), payload.id = id, the cache token is reset
CallIdentifyId(id, data) ==
  /\ UNCHANGED <<srvVars, anaVars, pxVars, mwVars, extVars, moreVars>>
  /\ CanCall
  /\ stepsLeft' = stepsLeft - 1
  /\ identity' = id
  /\ cacheRef' = None
  /\ tokenSinceId' = None
  /\ send(rendered, [getPayload(rendered) EXCEPT !.id = id, !.data = data], "identify",
          None, None, "identify")
  /\ UNCHANGED callFrame

\* identify(data) and identify()
CallIdentifyData(data) ==
  /\ UNCHANGED <<srvVars, anaVars, pxVars, mwVars, extVars, moreVars>>
  /\ CanCall
  /\ stepsLeft' = stepsLeft - 1
  /\ send(rendered, [getPayload(rendered) EXCEPT !.data = data], "identify", cacheRef,
          tokenSinceId, "identify")
  /\ UNCHANGED <<callFrame, identity, cacheRef, tokenSinceId>>

\* trackRevenue(name, revenue, currency): nothing is sent for a non-finite amount
CallTrackRevenue(finite) ==
  /\ UNCHANGED <<srvVars, anaVars, pxVars, mwVars, extVars, moreVars>>
  /\ CanCall
  /\ stepsLeft' = stepsLeft - 1
  /\ IF finite
     THEN send(rendered, [getPayload(rendered) EXCEPT !.name = "purchase", !.data = "revenue"],
               "event", cacheRef, tokenSinceId, "trackRevenue")
     ELSE NoSend
  /\ UNCHANGED <<callFrame, identity, cacheRef, tokenSinceId>>

CallTrackOutboundLink ==
  /\ UNCHANGED <<srvVars, anaVars, pxVars, mwVars, extVars, moreVars>>
  /\ CanCall
  /\ stepsLeft' = stepsLeft - 1
  /\ send(rendered,
          [getPayload(rendered) EXCEPT !.name = cfg.outboundLinkEvent, !.data = "url"],
          "event", cacheRef, tokenSinceId, "trackOutboundLink")
  /\ UNCHANGED <<callFrame, identity, cacheRef, tokenSinceId>>

CallSetTag(tag) ==
  /\ UNCHANGED <<srvVars, anaVars, pxVars, mwVars, extVars, moreVars>>
  /\ stepsLeft > 0
  /\ stepsLeft' = stepsLeft - 1
  /\ currentTag' = tag
  /\ UNCHANGED <<cfg, env, phase, isReady, isEnabled, identity, cacheRef, currentUrlRef,
                 currentRefRef, rendered, location, timers,
                 lastToken, tokenSinceId, disabledSeen, rejected>>
  /\ NoSend

\* ---- provider: navigation ---------------------------------------------------
\* history.pushState / replaceState / popstate to `loc`. With autoTrack the hooks
\* installed by the last render run handleNavigation, whose timer keeps that
\* render's track.
\* A pending timer: the values its track captured, and for the record the
\* locations its navigation went from and to.
NavTimer(snap, from, to) ==
  [isReady |-> snap.isReady, isEnabled |-> snap.isEnabled, tag |-> snap.tag,
   identity |-> snap.identity, from |-> from, to |-> to]

Navigate(loc) ==
  /\ UNCHANGED <<srvVars, anaVars, pxVars, mwVars, extVars, moreVars>>
  /\ phase = "mounted"
  /\ stepsLeft > 0
  /\ Len(timers) < MaxTimers
  /\ stepsLeft' = stepsLeft - 1
  /\ location' = loc
  /\ IF cfg.autoTrack /\ NormalizedUrl(loc) # currentUrlRef
     THEN /\ currentRefRef' = currentUrlRef
          /\ currentUrlRef' = NormalizedUrl(loc)
          /\ timers' = Append(timers, NavTimer(rendered, location, loc))
     ELSE UNCHANGED <<currentRefRef, currentUrlRef, timers>>
  /\ UNCHANGED <<cfg, env, phase, isReady, isEnabled, currentTag, identity, cacheRef,
                 rendered, lastToken, tokenSinceId, disabledSeen, rejected>>
  /\ NoSend

\* setTimeout(() => track(), 300) fires
TimerFire ==
  /\ UNCHANGED <<srvVars, anaVars, pxVars, mwVars, extVars, moreVars>>
  /\ timers # << >>
  /\ Room
  /\ timers' = Tail(timers)
  /\ send(Head(timers), getPayload(Head(timers)), "event", cacheRef, tokenSinceId, "timer")
  /\ UNCHANGED <<cfg, env, phase, isReady, isEnabled, currentTag, identity, cacheRef,
                 currentUrlRef, currentRefRef, rendered, location, stepsLeft,
                 lastToken, tokenSinceId, disabledSeen, rejected>>

\* ---- provider: the rest of send, after `await fetch` --------------------------
\* the kinds of failure of a send: the fetch rejected, the body was not JSON,
\* the collector answered with an error status
FailureKinds(out) ==
  (IF out.kind = "reject" THEN {"reject"} ELSE {}) \cup
  (IF out.kind = "text" THEN {"notJson"} ELSE {}) \cup
  (IF out.kind # "reject" /\ ~(out.status >= 200 /\ out.status <= 299)
   THEN {"status"} ELSE {})

Respond(r, out) ==
  /\ UNCHANGED <<srvVars, anaVars, pxVars, mwVars, extVars, moreVars>>
  /\ r \in inflight
  /\ inflight' = inflight \ {r}
  /\ isEnabled' = ResponseEnabled(out, isEnabled)
  /\ cacheRef' = ResponseCache(out, cacheRef)
  /\ UNCHANGED <<cfg, env, phase, isReady, currentTag, identity, currentUrlRef,
                 currentRefRef, rendered, location, timers, stepsLeft>>
  /\ rejected' = (rejected \/ SendSettles(out) = "rejected")
  /\ last' = [what |-> "response", failed |-> FailureKinds(out),
              settled |-> SendSettles(out),
              carriedCache |-> (out.kind = "json" /\ out.data.truthy /\ out.data.cache # None),
              tokenChanged |-> (cacheRef' # cacheRef),
              changed |-> (ProviderState' # ProviderState)]
  /\ disabledSeen' = (disabledSeen \/ (out.kind = "json" /\ out.data.truthy /\ out.data.disabled))
  /\ lastToken' = IF out.kind = "json" /\ out.data.truthy /\ out.data.cache # None
                  THEN out.data.cache ELSE lastToken
  /\ tokenSinceId' = IF out.kind = "json" /\ out.data.truthy /\ out.data.cache # None
                     THEN out.data.cache ELSE tokenSinceId

\* the provider's steps, with the fetch outcomes, the forms of track() and the
\* locations tried
ProviderSteps(outcomes, forms, locations) ==
  \/ MountEffects
  \/ Render
  \/ \E form \in forms : CallTrack(form)
  \/ CallTrackView(<<"/v">>, <<"/r">>)
  \/ CallIdentifyId("u1", None)
  \/ CallIdentifyData("traits")
  \/ \E finite \in BOOLEAN : CallTrackRevenue(finite)
  \/ CallTrackOutboundLink
  \/ CallSetTag("t2")
  \/ \E loc \in locations : Navigate(loc)
  \/ TimerFire
  \/ \E r \in inflight, out \in outcomes : Respond(r, out)

\* One provider under the default configuration, every fetch outcome.
InitProvider ==
  /\ ProviderInit({BaseCfg}, {BaseEnv}, MaxSteps)
  /\ ServerIdle /\ AnalyticsIdle /\ ProxyIdle /\ MiddlewareIdle /\ ExtIdle /\ MoreIdle
NextProvider == ProviderSteps(Outcomes, {"view", "nameData"}, {StartLocation, OtherPage})
SpecProvider == InitProvider /\ [][NextProvider]_vars

\* ---- provider: failures (C2) -------------------------------------------------
\* C2 as stated: the promises of the tracking functions never reject, and a
\* failed send (fetch rejected, error status, or body not JSON) leaves the
\* provider's state unchanged.
C2_FailedSendLeavesState ==
  /\ ~rejected
  /\ (last.what = "response" /\ last.failed # {}) => ~last.changed

\* C2 as amended: the promises of the tracking functions never reject, whatever
\* the fetch outcome; handling a fetch that rejected or a body that is not
\* JSON changes none of isEnabled, cache token, tag, identity, URL, referrer.
\* (A JSON body under an error status is applied like any other.)
C2_ResolvesAndThrowLeavesState ==
  /\ ~rejected
  /\ last.what = "response" => last.settled = "resolved"
  /\ (last.what = "response" /\ last.failed \cap {"reject", "notJson"} # {})
       => ~last.changed

\* a rejected fetch was handled while a cache token was stored
C2_Witness ==
  /\ last.what = "response"
  /\ "reject" \in last.failed
  /\ cacheRef # None

\* ---- provider: the disabled flag (C3) ----------------------------------------
\* C3: once a response with a truthy `disabled` has been handled, isEnabled is
\* false and no request is issued any more, by no tracking function and by no
\* pending page view.
C3_DisabledStopsRequests ==
  /\ disabledSeen => ~isEnabled
  /\ (last.what = "send" /\ last.sent) => ~last.afterDisabled

\* ---- provider: the cache token (C4) ------------------------------------------
\* C4 as stated: every request carries as x-entrolytics-cache the token of the
\* most recently handled response that contained one, and no such header when
\* none was received yet.
C4_HeaderIsLastToken ==
  (last.what = "send" /\ last.sent) => last.req.cacheHeader = last.wantToken

\* C4 as amended: every request carries as x-entrolytics-cache the token of the
\* most recently handled response that contained one since the last identify
\* with a string ID, and no such header when there was none since then; a
\* response without a cache field leaves the stored token unchanged.
C4_HeaderIsLastTokenSinceIdentify ==
  /\ (last.what = "send" /\ last.sent) => last.req.cacheHeader = last.wantTokenSinceId
  /\ (last.what = "response" /\ ~last.carriedCache) => ~last.tokenChanged

\* a request goes out after an identify, with the token a later response brought,
\* which is not the one stored before
C4_Witness ==
  /\ last.what = "send" /\ last.sent
  /\ identity # None
  /\ last.req.cacheHeader = "c2"
  /\ last.req.type = "event"

\* ---- provider: beforeSend (C5) -----------------------------------------------
\* fetch outcomes enough to store a token and to disable tracking
PlainOutcomes ==
  {Outcome("reject", 0, NullData), Outcome("json", 200, Data(FALSE, "c1")),
   Outcome("json", 200, Data(TRUE, None))}

\* One provider per beforeSend callback.
InitBeforeSend ==
  /\ ProviderInit({[BaseCfg EXCEPT !.beforeSend = k] : k \in BeforeSendKinds}, {BaseEnv},
                  MaxConfigSteps)
  /\ ServerIdle /\ AnalyticsIdle /\ ProxyIdle /\ MiddlewareIdle /\ ExtIdle /\ MoreIdle
NextBeforeSend == ProviderSteps(PlainOutcomes, {"view", "nameData"}, {StartLocation, OtherPage})
SpecBeforeSend == InitBeforeSend /\ [][NextBeforeSend]_vars

\* C5: with a beforeSend callback configured, each run of send calls it once if
\* the event passed the disablement checks and not at all otherwise; when it
\* returns null or undefined no request goes out, and otherwise the request's
\* payload is the value it returned.
C5_BeforeSendDecides ==
  (last.what = "send" /\ cfg.beforeSend # None) =>
    /\ last.bsCalls = (IF last.passed THEN 1 ELSE 0)
    /\ last.passed =>
         LET returned == beforeSend(cfg.beforeSend, last.type, last.orig)
         IN IF returned.ret \in {"null", "undefined"}
            THEN ~last.sent
            ELSE last.sent /\ last.req.payload = returned.value

\* a request went out with a payload the callback changed
C5_Witness ==
  /\ last.what = "send" /\ last.sent
  /\ cfg.beforeSend = "redact"
  /\ last.req.payload # last.orig
  /\ last.req.payload.url = <<"/redacted">>

\* ---- provider: restrictions (C6) ---------------------------------------------
RestrictedCfgs ==
  {BaseCfg,
   [BaseCfg EXCEPT !.websiteId = None],
   [BaseCfg EXCEPT !.websiteId = None, !.linkId = "L"],
   [BaseCfg EXCEPT !.websiteId = None, !.pixelId = "P"],
   [BaseCfg EXCEPT !.domains = <<"shop.example", "example.com">>],
   [BaseCfg EXCEPT !.domains = <<"shop.example">>],
   [BaseCfg EXCEPT !.ignoreLocalhost = TRUE],
   [BaseCfg EXCEPT !.respectDoNotTrack = TRUE]}

RestrictedEnvs ==
  {BaseEnv,
   [BaseEnv EXCEPT !.lsDisabled = TRUE],
   [BaseEnv EXCEPT !.hostname = "localhost"],
   [BaseEnv EXCEPT !.hostname = "127.0.0.1"],
   [BaseEnv EXCEPT !.navDnt = "1"],
   [BaseEnv EXCEPT !.msDnt = "yes"],
   [BaseEnv EXCEPT !.winDnt = "1"],
   [BaseEnv EXCEPT !.navDnt = "0", !.winDnt = "1"],
   [BaseEnv EXCEPT !.navDnt = "unspecified"]}

InitRestricted ==
  /\ ProviderInit(RestrictedCfgs, RestrictedEnvs, MaxConfigSteps)
  /\ ServerIdle /\ AnalyticsIdle /\ ProxyIdle /\ MiddlewareIdle /\ ExtIdle /\ MoreIdle
NextRestricted == ProviderSteps(PlainOutcomes, {"view"}, {StartLocation, OtherPage})
SpecRestricted == InitRestricted /\ [][NextRestricted]_vars

\* a restriction of the configuration applies
Restricted ==
  \/ (cfg.websiteId = None /\ cfg.linkId = None /\ cfg.pixelId = None)
  \/ env.lsDisabled
  \/ (cfg.domains # << >> /\ \A i \in DOMAIN cfg.domains : cfg.domains[i] # env.hostname)
  \/ (cfg.ignoreLocalhost /\ (env.hostname = "localhost" \/ env.hostname = "127.0.0.1"))
  \/ (cfg.respectDoNotTrack /\ (DoNotTrack = "1" \/ DoNotTrack = "yes"))

EndpointCfgs ==
  {[BaseCfg EXCEPT !.proxy = p, !.host = h, !.useEdgeRuntime = e] :
     p \in {NoProxy,
            [isObject |-> TRUE, enabled |-> FALSE, collectPath |-> <<"/stats">>],
            [isObject |-> TRUE, enabled |-> TRUE, collectPath |-> << >>],
            [isObject |-> TRUE, enabled |-> TRUE, collectPath |-> <<"/stats">>]},
     h \in {<< >>, <<"https://c">>, <<"https://c", "/">>, <<"https://c", "/", "/">>},
     e \in {None, "true", "false"}}

InitEndpoint ==
  /\ ProviderInit(EndpointCfgs, {BaseEnv}, MaxConfigSteps)
  /\ ServerIdle /\ AnalyticsIdle /\ ProxyIdle /\ MiddlewareIdle /\ ExtIdle /\ MoreIdle
NextEndpoint == ProviderSteps(PlainOutcomes, {"view"}, {StartLocation, OtherPage})
SpecEndpoint == InitEndpoint /\ [][NextEndpoint]_vars

\* the endpoint as C7 states it
C7_Endpoint ==
  IF cfg.proxy.isObject /\ cfg.proxy.enabled
  THEN IF cfg.proxy.collectPath = << >> THEN <<"/api/collect">> ELSE cfg.proxy.collectPath
  ELSE LET n == Len(cfg.host)
           host == IF n > 0 /\ cfg.host[n] = "/"
                   THEN [i \in 1..(n - 1) |-> cfg.host[i]] ELSE cfg.host
       IN host \o (IF cfg.useEdgeRuntime = "false" THEN <<"/api/send">>
                   ELSE <<"/api/send-edge">>)

\* C7: every request of the provider is a POST of {type, payload}, type event or
\* identify, to the proxy collect path in proxy mode and otherwise to the host
\* without one trailing slash followed by /api/send-edge, or by /api/send when
\* useEdgeRuntime is false.
C7_PostsToEndpoint ==
  /\ \A r \in inflight :
       /\ r.endpoint = C7_Endpoint
       /\ r.method = "POST"
       /\ r.type \in {"event", "identify"}
  /\ (last.what = "send" /\ last.sent) =>
       (last.req \in inflight /\ last.req.type = last.type
          /\ last.req.payload = last.orig)

\* an identify request to a host given with two trailing slashes, edge runtime off
C7_Witness ==
  /\ cfg.host = <<"https://c", "/", "/">> /\ ~cfg.proxy.isObject
  /\ cfg.useEdgeRuntime = "false"
  /\ \E r \in inflight :
       r.type = "identify" /\ r.endpoint = <<"https://c", "/", "/api/send">>

\* =========================================================================
\* Server helpers (server/forms.ts, server/vitals.ts)
\* =========================================================================
MaxServerCalls == 2    \* helper calls in flight at once

ServerHelpers ==
  {"trackServerEvent", "identifyServerSession", "trackServerFormEvent",
   "trackServerFormEventsBatch", "trackServerVital", "trackServerVitalsBatch"}

\* the path each helper posts to
ServerPath(helper) ==
  CASE helper \in {"trackServerEvent", "identifyServerSession"} -> "/api/send"
    [] helper \in {"trackServerFormEvent", "trackServerFormEventsBatch"} -> "/api/collect/forms"
    [] OTHER -> "/api/collect/vitals"

\* trackServerEvent's "Add the appropriate ID type"; the other helpers always
\* put config.websiteId under `website`
ServerTenant(helper, config) ==
  IF helper # "trackServerEvent" THEN [key |-> "website", value |-> config.websiteId]
  ELSE IF config.websiteId # None THEN [key |-> "website", value |-> config.websiteId]
  ELSE IF config.linkId # None THEN [key |-> "link", value |-> config.linkId]
  ELSE IF config.pixelId # None THEN [key |-> "pixel", value |-> config.pixelId]
  ELSE [key |-> None, value |-> None]

\* the fetch a helper issues
ServerRequest(helper, config) ==
  [helper |-> helper,
   url |-> StripTrailingSlash(config.host) \o <<ServerPath(helper)>>,
   method |-> "POST",
   type |-> CASE helper = "trackServerEvent" -> "event"
              [] helper = "identifyServerSession" -> "identify"
              [] OTHER -> None,
   tenant |-> ServerTenant(helper, config)]

ServerConfigs ==
  {[host |-> h, websiteId |-> w, linkId |-> l, pixelId |-> None] :
     h \in {<<"https://c">>, <<"https://c", "/">>},
     w \in {None, "W"}, l \in {None, "L"}}

\* Outcomes of the helper's fetch: a rejection with an Error, a rejection with a
\* value that is no Error, or a response with a status.
ServerStatuses == {200, 204, 299, 300, 404, 500}

ServerOutcomes ==
  {[kind |-> "reject", isError |-> TRUE, message |-> "fetch failed", status |-> 0],
   [kind |-> "reject", isError |-> FALSE, message |-> "thrown", status |-> 0]}
  \cup {[kind |-> "response", isError |-> FALSE, message |-> "", status |-> st] :
          st \in ServerStatuses}

\* Response.ok
ResponseOk(status) == status >= 200 /\ status <= 299

\* A helper's result; `error` is the text as its pieces, << >> when the key is absent.
ServerOk == [ok |-> TRUE, error |-> << >>]
ServerFail(error) == [ok |-> FALSE, error |-> error]

\* faulty variant: response.ok is never looked at
ServerOnResponseUnchecked(status) == ServerOk

\* the try block after the fetch resolved
ServerOnResponse(status) ==
  IF ~ResponseOk(status) THEN ServerFail(<<"HTTP ", status>>) ELSE ServerOk

\* the catch block
ServerOnError(out) ==
  ServerFail(IF out.isError THEN <<out.message>> ELSE <<"Unknown error">>)

\* faulty variant: a failed fetch is not caught
ServerSettleUncaught(out) ==
  IF out.kind = "reject"
  THEN [settle |-> "rejected", value |-> [isError |-> out.isError, message |-> out.message]]
  ELSE [settle |-> "resolved", value |-> ServerOnResponse(out.status)]

\* how the helper's promise settles and with what
ServerSettle(out) ==
  IF out.kind = "reject"
  THEN [settle |-> "resolved", value |-> ServerOnError(out)]
  ELSE [settle |-> "resolved", value |-> ServerOnResponse(out.status)]

\* a helper is called: everything up to the awaited fetch
ServerCall(helper, config) ==
  /\ UNCHANGED <<provVars, anaVars, pxVars, mwVars, extVars, moreVars>>
  /\ Cardinality(srvPending) < MaxServerCalls
  /\ srvPending' = srvPending \cup {ServerRequest(helper, config)}
  /\ srvDone' = Nothing

\* faulty variant: a call whose fetch was rejected stays pending and is sent again
ServerFinishRetries(call, out) ==
  /\ UNCHANGED <<provVars, anaVars, pxVars, mwVars, extVars, moreVars>>
  /\ call \in srvPending
  /\ srvPending' = IF out.kind = "reject" THEN srvPending ELSE srvPending \ {call}
  /\ srvDone' = [what |-> "settled", call |-> call, fetch |-> out,
                 promise |-> ServerSettle(out)]

\* the fetch of a call settles and the helper finishes
ServerFinish(call, out) ==
  /\ UNCHANGED <<provVars, anaVars, pxVars, mwVars, extVars, moreVars>>
  /\ call \in srvPending
  /\ srvPending' = srvPending \ {call}
  /\ srvDone' = [what |-> "settled", call |-> call, fetch |-> out,
                 promise |-> ServerSettle(out)]

InitServer ==
  /\ ProviderIdle /\ AnalyticsIdle /\ ProxyIdle /\ MiddlewareIdle /\ ExtIdle /\ MoreIdle
  /\ srvPending = {}
  /\ srvDone = Nothing

NextServer ==
  \/ \E helper \in ServerHelpers, config \in ServerConfigs : ServerCall(helper, config)
  \/ \E call \in srvPending, out \in ServerOutcomes : ServerFinish(call, out)

SpecServer == InitServer /\ [][NextServer]_vars

\* C1: every server helper resolves and never rejects whatever its fetch did; it
\* returns {ok: true} exactly when the collector answered with a 2xx status,
\* {ok: false, error: "HTTP <status>"} for any other status, and {ok: false}
\* with the error's message (or "Unknown error" for a thrown non-Error) when
\* the fetch failed.
C1_HelpersAlwaysResolve ==
  srvDone.what = "settled" =>
    LET out == srvDone.fetch
        res == srvDone.promise
        twoXX == out.kind = "response" /\ out.status \in 200..299
    IN /\ res.settle = "resolved"
       /\ res.value.ok = twoXX
       /\ twoXX => res.value.error = << >>
       /\ (out.kind = "response" /\ ~twoXX) =>
            res.value = [ok |-> FALSE, error |-> <<"HTTP ", out.status>>]
       /\ (out.kind = "reject" /\ out.isError) =>
            res.value = [ok |-> FALSE, error |-> <<out.message>>]
       /\ (out.kind = "reject" /\ ~out.isError) =>
            res.value = [ok |-> FALSE, error |-> <<"Unknown error">>]

\* a helper has returned {ok: false, error: "HTTP 300"} for a 300 answer
C1_Witness ==
  /\ srvDone.what = "settled"
  /\ srvDone.fetch.kind = "response" /\ srvDone.fetch.status = 300
  /\ srvDone.promise = [settle |-> "resolved",
                        value |-> [ok |-> FALSE, error |-> <<"HTTP ", 300>>]]
  /\ srvDone.call.helper = "trackServerVitalsBatch"

\* =========================================================================
\* <Analytics /> (client/components/Analytics.tsx) and the config plugin
\* =========================================================================
\* `a || b` on values where None stands for undefined and the empty string
Or(a, b) == IF a # None THEN a ELSE b

\* withEntrolytics(pluginConfig)(nextConfig): the env block it merges
PluginEnv(pluginConfig, old) ==
  [old EXCEPT !.NEXT_PUBLIC_ENTROLYTICS_WEBSITE_ID = pluginConfig.websiteId,
              !.NEXT_PUBLIC_ENTROLYTICS_HOST =
                 IF pluginConfig.host # None THEN pluginConfig.host ELSE @]

\* what Analytics reads
FinalWebsiteId(props, e) == Or(props.websiteId, e.NEXT_PUBLIC_ENTROLYTICS_NG_WEBSITE_ID)
FinalHost(props, e) == Or(props.host, e.NEXT_PUBLIC_ENTROLYTICS_HOST)

\* Analytics(props): null, or the provider with the final website ID and host
AnalyticsRender(props, e) ==
  LET finalWebsiteId == FinalWebsiteId(props, e)
      finalHost == FinalHost(props, e)
  IN IF e.NODE_ENV = "development" /\ finalWebsiteId = None
     THEN [what |-> "null", warned |-> TRUE, websiteId |-> None, host |-> None]
     ELSE IF finalWebsiteId = None
     THEN [what |-> "null", warned |-> FALSE, websiteId |-> None, host |-> None]
     ELSE [what |-> "provider", warned |-> FALSE, websiteId |-> finalWebsiteId,
           host |-> finalHost]

AnalyticsProps == {[websiteId |-> w, host |-> h] : w \in {None, "Wprop"}, h \in {None, "Hprop"}}

\* .env.local sets or clears one of the variables
SetEnv(name, value) ==
  /\ UNCHANGED <<provVars, srvVars, pxVars, mwVars, extVars, moreVars>>
  /\ anaEnv' = [anaEnv EXCEPT ![name] = value]
  /\ anaOut' = NotRendered
  /\ UNCHANGED anaProps

\* next.config.js is wrapped with withEntrolytics
ApplyPlugin(pluginConfig) ==
  /\ UNCHANGED <<provVars, srvVars, pxVars, mwVars, extVars, moreVars>>
  /\ anaEnv' = PluginEnv(pluginConfig, anaEnv)
  /\ anaOut' = NotRendered
  /\ UNCHANGED anaProps

\* <Analytics {...props} /> renders
RenderAnalytics(props) ==
  /\ UNCHANGED <<provVars, srvVars, pxVars, mwVars, extVars, moreVars>>
  /\ anaProps' = props
  /\ anaOut' = AnalyticsRender(props, anaEnv)
  /\ UNCHANGED anaEnv

InitAnalytics ==
  /\ ProviderIdle /\ ServerIdle /\ ProxyIdle /\ MiddlewareIdle /\ ExtIdle /\ MoreIdle
  /\ anaProps = [websiteId |-> None, host |-> None]
  /\ anaEnv = EmptyEnv
  /\ anaOut = NotRendered

NextAnalytics ==
  \/ \E value \in {None, "Wng"} : SetEnv("NEXT_PUBLIC_ENTROLYTICS_NG_WEBSITE_ID", value)
  \/ \E value \in {None, "Wenv"} : SetEnv("NEXT_PUBLIC_ENTROLYTICS_WEBSITE_ID", value)
  \/ \E value \in {None, "Henv"} : SetEnv("NEXT_PUBLIC_ENTROLYTICS_HOST", value)
  \/ \E value \in {"development", "production"} : SetEnv("NODE_ENV", value)
  \/ \E w \in {"Wplugin"}, h \in {None, "Hplugin"} :
       ApplyPlugin([websiteId |-> w, host |-> h])
  \/ \E props \in AnalyticsProps : RenderAnalytics(props)

SpecAnalytics == InitAnalytics /\ [][NextAnalytics]_vars

\* C8: with no websiteId prop, <Analytics /> mounts the provider with the
\* website ID of NEXT_PUBLIC_ENTROLYTICS_WEBSITE_ID and the host of
\* NEXT_PUBLIC_ENTROLYTICS_HOST; it renders nothing exactly when neither the
\* prop nor that variable provides a website ID.
C8_AnalyticsReadsWebsiteIdVariable ==
  anaOut # NotRendered =>
    LET id == Or(anaProps.websiteId, anaEnv.NEXT_PUBLIC_ENTROLYTICS_WEBSITE_ID)
        host == Or(anaProps.host, anaEnv.NEXT_PUBLIC_ENTROLYTICS_HOST)
    IN /\ (anaOut.what = "null") <=> (id = None)
       /\ anaOut.what = "provider" => anaOut.websiteId = id /\ anaOut.host = host

\* =========================================================================
\* Collect proxy: createProxyHandler(config).POST (server/proxy.ts)
\* =========================================================================
MaxMembers == 2        \* members of the JSON object a client posts
MaxProxyPending == 1   \* POSTs waiting for the collector at once

\* JSON values found under "payload"; an object carries its `website` member
PAbsent == [kind |-> "absent", website |-> None]
PNull == [kind |-> "null", website |-> None]
PArray == [kind |-> "array", website |-> None]
PString == [kind |-> "string", website |-> None]
PObject(website) == [kind |-> "object", website |-> website]

\* the members a client may write into its body, as text order has them
BodyMembers ==
  {[key |-> "type", type |-> "event", payload |-> PAbsent]}
  \cup {[key |-> "payload", type |-> None, payload |-> v] :
          v \in {PNull, PArray, PString, PObject(None), PObject("X"), PObject("W")}}

RECURSIVE SeqsUpTo(_, _)
SeqsUpTo(S, n) ==
  IF n = 0 THEN {<< >>}
  ELSE LET shorter == SeqsUpTo(S, n - 1)
       IN shorter \cup {Append(q, m) : q \in {x \in shorter : Len(x) = n - 1}, m \in S}

\* request bodies: not JSON at all, the JSON value null, or a JSON object
ClientBodies ==
  {[kind |-> "invalid", members |-> << >>], [kind |-> "null", members |-> << >>]}
  \cup {[kind |-> "object", members |-> ms] : ms \in SeqsUpTo(BodyMembers, MaxMembers)}

\* JSON.parse of an object: a repeated key keeps its first position and its
\* last value
RECURSIVE KeyOrder(_)
KeyOrder(ms) ==
  IF ms = << >> THEN << >>
  ELSE LET front == KeyOrder(SubSeq(ms, 1, Len(ms) - 1))
           k == ms[Len(ms)].key
       IN IF k \in Range(front) THEN front ELSE Append(front, k)

LastOf(ms, key) == ms[CHOOSE i \in 1..Len(ms) :
                        ms[i].key = key /\ \A j \in (i+1)..Len(ms) : ms[j].key # key]

JsonParse(raw) ==
  LET keys == KeyOrder(raw.members)
  IN [kind |-> raw.kind, keys |-> keys,
      type |-> IF "type" \in Range(keys) THEN LastOf(raw.members, "type").type ELSE None,
      payload |-> IF "payload" \in Range(keys)
                  THEN LastOf(raw.members, "payload").payload ELSE PAbsent]

\* JSON.stringify: own enumerable members in order; a property set on an
\* array is not an element and is left out
JsonStringify(value) ==
  [kind |-> value.kind,
   members |-> [i \in 1..Len(value.keys) |->
      IF value.keys[i] = "type"
      THEN [key |-> "type", type |-> value.type, payload |-> PAbsent]
      ELSE [key |-> "payload", type |-> None,
            payload |-> IF value.payload.kind = "array"
                        THEN PArray ELSE value.payload]]]

Truthy(payload) == payload.kind \in {"object", "array", "string"}

\* const { host, websiteId, mode = 'direct' } = config
ProxyMode == IF pxCfg.mode = None THEN "direct" ELSE pxCfg.mode

\* the condition of "In cloak mode, inject websiteId into the payload"; it
\* reads body.payload only when the first two operands are truthy
CloakApplies == ProxyMode = "cloak" /\ pxCfg.websiteId # None

\* faulty variant: a website the client sent is kept
CloakInjectsWhenMissing(value) ==
  CloakApplies /\ Truthy(value.payload) /\ value.payload.website = None

CloakInjects(value) == CloakApplies /\ Truthy(value.payload)

\* body.payload.website = websiteId; on a primitive the assignment throws in
\* strict code and is ignored in sloppy code
InjectThrows(value, strict) == value.payload.kind = "string" /\ strict

Inject(value) ==
  IF value.payload.kind = "string" THEN value
  ELSE [value EXCEPT !.payload.website = pxCfg.websiteId]

\* the try block up to the awaited fetch throws
PostThrows(raw, strict) ==
  \/ raw.kind = "invalid"
  \/ raw.kind = "null" /\ CloakApplies
  \/ raw.kind = "object" /\ CloakInjects(JsonParse(raw)) /\ InjectThrows(JsonParse(raw), strict)

\* the body of the fetch to the collector
PostForwards(raw) ==
  LET value == JsonParse(raw)
  IN JsonStringify(IF raw.kind = "object" /\ CloakInjects(value) THEN Inject(value) ELSE value)

ProxyError == [status |-> 502, body |-> "Proxy error", cacheControl |-> None]

\* POST(request) up to the awaited fetch
PostReceive(raw, strict) ==
  /\ UNCHANGED <<provVars, srvVars, anaVars, mwVars, extVars, moreVars>>
  /\ pxPending < MaxProxyPending
  /\ IF PostThrows(raw, strict)
     THEN /\ pxDone' = [what |-> "answered", response |-> ProxyError]
          /\ UNCHANGED pxPending
     ELSE /\ pxDone' = [what |-> "forwarded", client |-> raw,
                        url |-> StripTrailingSlash(pxCfg.host) \o <<"/api/send">>,
                        method |-> "POST", sent |-> PostForwards(raw)]
          /\ pxPending' = pxPending + 1
  /\ UNCHANGED pxCfg

\* what the collector's answer turns into
ProxyUpstream ==
  {[kind |-> "reject", status |-> 0, data |-> None],
   [kind |-> "text", status |-> 200, data |-> None],
   [kind |-> "json", status |-> 200, data |-> "ok"],
   [kind |-> "json", status |-> 400, data |-> "bad"]}

PostResponse(out) ==
  IF out.kind \in {"reject", "text"} THEN ProxyError
  ELSE [status |-> out.status, body |-> out.data, cacheControl |-> "no-store"]

\* the collector answers (or the fetch fails) and POST returns
PostAnswer(out) ==
  /\ UNCHANGED <<provVars, srvVars, anaVars, mwVars, extVars, moreVars>>
  /\ pxPending > 0
  /\ pxPending' = pxPending - 1
  /\ pxDone' = [what |-> "answered", response |-> PostResponse(out)]
  /\ UNCHANGED pxCfg

ProxyCfgs ==
  {[host |-> h, websiteId |-> w, mode |-> m] :
     h \in {<<"https://c">>, <<"https://c", "/">>}, w \in {None, "W"},
     m \in {None, "direct", "cloak"}}

InitProxy ==
  /\ ProviderIdle /\ ServerIdle /\ AnalyticsIdle /\ MiddlewareIdle /\ ExtIdle /\ MoreIdle
  /\ pxCfg \in ProxyCfgs
  /\ pxPending = 0
  /\ pxDone = Nothing

NextProxy ==
  \/ \E raw \in ClientBodies, strict \in BOOLEAN : PostReceive(raw, strict)
  \/ \E out \in ProxyUpstream : PostAnswer(out)

SpecProxy == InitProxy /\ [][NextProxy]_vars

\* C9 as stated: in cloak mode with a configured websiteId every forwarded body
\* that has a payload has payload.website equal to the configured ID; in
\* direct mode the forwarded body is the client's body.
C9_CloakInjectsIntoEveryPayload ==
  pxDone.what = "forwarded" =>
    LET fwd == JsonParse(pxDone.sent)
        client == JsonParse(pxDone.client)
    IN /\ (pxCfg.mode = "cloak" /\ pxCfg.websiteId # None /\ Truthy(fwd.payload))
            => fwd.payload.website = pxCfg.websiteId
       /\ pxCfg.mode \in {None, "direct"} => fwd = client

\* C9: in cloak mode with a configured websiteId every forwarded body whose
\* payload is a JSON object has payload.website equal to the configured ID,
\* whatever the client sent there, and a payload that is no object is
\* forwarded as it came; in direct mode the forwarded body parses to the same
\* value as the client's body.
C9_CloakInjectsIntoObjectPayload ==
  pxDone.what = "forwarded" =>
    LET fwd == JsonParse(pxDone.sent)
        client == JsonParse(pxDone.client)
    IN /\ (pxCfg.mode = "cloak" /\ pxCfg.websiteId # None /\ fwd.payload.kind = "object")
            => fwd.payload.website = pxCfg.websiteId
       /\ client.payload.kind # "object" => fwd.payload = client.payload
       /\ fwd.type = client.type /\ fwd.keys = client.keys
       /\ fwd.payload.kind = client.payload.kind
       /\ pxCfg.mode \in {None, "direct"} => fwd = client

\* a cloak proxy has replaced the website a client sent by the configured one
C9_Witness ==
  /\ pxDone.what = "forwarded"
  /\ pxCfg.mode = "cloak" /\ pxCfg.websiteId = "W"
  /\ JsonParse(pxDone.client).payload = PObject("X")
  /\ JsonParse(pxDone.sent).payload = PObject("W")

\* =========================================================================
\* Middleware: withEntrolyticsMiddleware(config) (server/middleware)
\* =========================================================================
MaxSegments == 2       \* path segments of a request
MaxMwPending == 1      \* tracking fetches in flight at once

\* Paths and patterns are sequences of characters; a segment name stands for
\* its characters, "*" is the glob star.
Segments == {"a", "api", "_next"}

RECURSIVE PathsOf(_)
PathsOf(n) ==
  IF n = 0 THEN {<<"/">>}
  ELSE IF n = 1 THEN {<<"/", x>> : x \in Segments}
  ELSE {q \o <<"/", x>> : q \in PathsOf(n - 1), x \in Segments}

Pathnames == UNION {PathsOf(n) : n \in 0..MaxSegments}

\* excludeRoutes = ['/api/collect', '/_next', '/favicon.ico'] when not given;
\* trackRoutes = [] when not given, so an absent list is the empty one
DefaultExcludeRoutes == <<<<"/", "api", "/", "collect">>, <<"/", "_next">>, <<"/", "favicon.ico">>>>
TrackRoutes == mwCfg.trackRoutes
ExcludeRoutes ==
  IF mwCfg.excludeRoutes.given THEN mwCfg.excludeRoutes.routes ELSE DefaultExcludeRoutes

\* routeToRegex(pattern).test(pathname): the pattern anchored at both ends,
\* every "*" matching any run of characters, everything else literal
RECURSIVE routeToRegex(_, _)
routeToRegex(pattern, pathname) ==
  IF pattern = << >> THEN pathname = << >>
  ELSE IF Head(pattern) = "*"
  THEN \/ routeToRegex(Tail(pattern), pathname)
       \/ pathname # << >> /\ routeToRegex(pattern, Tail(pathname))
  ELSE /\ pathname # << >>
       /\ Head(pathname) = Head(pattern)
       /\ routeToRegex(Tail(pattern), Tail(pathname))

\* faulty variant: the track patterns are looked at first
shouldTrackFirst(pathname) ==
  IF \E i \in 1..Len(TrackRoutes) : routeToRegex(TrackRoutes[i], pathname) THEN TRUE
  ELSE FALSE

shouldTrack(pathname) ==
  IF \E i \in 1..Len(ExcludeRoutes) : routeToRegex(ExcludeRoutes[i], pathname) THEN FALSE
  ELSE IF Len(TrackRoutes) = 0 THEN FALSE
  ELSE \E i \in 1..Len(TrackRoutes) : routeToRegex(TrackRoutes[i], pathname)

\* the tracking fetch of a tracked request
MwRequest(pathname, search) ==
  [url |-> StripTrailingSlash(mwCfg.host) \o <<"/api/send">>, method |-> "POST",
   type |-> "event",
   payload |-> [website |-> mwCfg.websiteId, url |-> pathname \o Part(search),
                name |-> "middleware-request", pathname |-> pathname,
                tag |-> mwCfg.tag]]

NoMwRequest == [url |-> << >>, method |-> None, type |-> None, payload |-> None]

\* faulty variant: a tracked request gets nothing back
MwReturnsUntracked(given, tracked) == IF tracked THEN None ELSE given

\* `return response`
MwReturns(given, tracked) == given

\* the handler is called: it starts the tracking fetch, if any, and returns
MwHandle(pathname, search, given) ==
  /\ UNCHANGED <<provVars, srvVars, anaVars, pxVars, extVars, moreVars>>
  /\ mwPending < MaxMwPending
  /\ LET tracked == shouldTrack(pathname)
     IN /\ mwPending' = IF tracked THEN mwPending + 1 ELSE mwPending
        /\ mwReturn' = [what |-> "returned", pathname |-> pathname, given |-> given,
                        tracked |-> tracked,
                        request |-> IF tracked THEN MwRequest(pathname, search)
                                    ELSE NoMwRequest,
                        settle |-> "resolved",
                        value |-> MwReturns(given, tracked),
                        inFlight |-> mwPending',
                        started |-> mwPending' - mwPending]
  /\ UNCHANGED <<mwCfg, mwSettled>>

\* .catch(error => console.error(...)) on the tracking fetch
MwFetchEnds(ok) == IF ok THEN "fulfilled" ELSE "caught"

\* a tracking fetch settles, long after its handler call returned
MwFetchSettles(ok) ==
  /\ UNCHANGED <<provVars, srvVars, anaVars, pxVars, extVars, moreVars>>
  /\ mwPending > 0
  /\ mwPending' = mwPending - 1
  /\ mwSettled' = MwFetchEnds(ok)
  /\ UNCHANGED <<mwCfg, mwReturn>>

MwCfg(trackRoutes, excludeRoutes, tag) ==
  [host |-> <<"https://c", "/">>, websiteId |-> "W", trackRoutes |-> trackRoutes,
   excludeRoutes |-> excludeRoutes, tag |-> tag]

DefaultExclusions == [given |-> FALSE, routes |-> << >>]
Exclusions(routes) == [given |-> TRUE, routes |-> routes]

MwCfgs ==
  {MwCfg(<< >>, DefaultExclusions, None),
   MwCfg(<<<<"/", "*">>>>, DefaultExclusions, None),
   MwCfg(<<<<"/", "*">>>>, Exclusions(<< >>), "t"),
   MwCfg(<<<<"/", "a", "*">>, <<"/", "api", "/", "*">>>>, DefaultExclusions, "t"),
   MwCfg(<<<<"/", "a", "*">>, <<"/", "api", "/", "*">>>>, Exclusions(<<<<"/", "a", "/", "*">>>>), None),
   MwCfg(<<<<"/", "*">>>>, Exclusions(<<<<"/", "a", "/", "*">>>>), None)}

InitMiddleware ==
  /\ ProviderIdle /\ ServerIdle /\ AnalyticsIdle /\ ProxyIdle /\ ExtIdle /\ MoreIdle
  /\ mwCfg \in MwCfgs
  /\ mwPending = 0
  /\ mwReturn = Nothing
  /\ mwSettled = None

NextMiddleware ==
  \/ \E pathname \in Pathnames, search \in {"", "?q"}, given \in {None, "response"} :
       MwHandle(pathname, search, given)
  \/ \E ok \in BOOLEAN : MwFetchSettles(ok)

SpecMiddleware == InitMiddleware /\ [][NextMiddleware]_vars

\* C10: the middleware handler returns exactly the response it was given
\* (undefined when none was given), tracked or not, and returns while the
\* tracking fetch it started is still in flight; a failing tracking fetch is
\* caught and never makes the handler throw or reject.
C10_HandlerReturnsGivenResponse ==
  /\ mwReturn.what = "returned" =>
       /\ mwReturn.settle = "resolved"
       /\ mwReturn.value = mwReturn.given
       /\ mwReturn.tracked => mwReturn.inFlight >= 1
  /\ mwSettled \in {None, "fulfilled", "caught"}

\* a tracked request got its response back while its fetch was in flight, and
\* a tracking fetch has failed since
C10_Witness ==
  /\ mwReturn.what = "returned"
  /\ mwReturn.tracked /\ mwReturn.given = "response" /\ mwReturn.value = "response"
  /\ mwReturn.inFlight >= 1
  /\ mwSettled = "caught"

\* ---- middleware: which requests are tracked (C11) ----------------------------
\* Glob matching stated on its own: the positions of the pattern that can be
\* reached after k characters of the pathname, where position i means that
\* the first i pattern characters are used up and a "*" may take any run.
C11_Skip(pattern, S) ==
  {j \in 0..Len(pattern) :
     \E i \in S : i <= j /\ \A m \in (i + 1)..j : pattern[m] = "*"}

RECURSIVE C11_Reach(_, _, _)
C11_Reach(pattern, pathname, k) ==
  IF k = 0 THEN C11_Skip(pattern, {0})
  ELSE LET prev == C11_Reach(pattern, pathname, k - 1)
           step == {i \in prev : i < Len(pattern) /\ pattern[i + 1] = "*"}
                   \cup {i + 1 : i \in {x \in prev : x < Len(pattern)
                                                    /\ pattern[x + 1] = pathname[k]}}
       IN C11_Skip(pattern, step)

C11_Matches(pattern, pathname) ==
  Len(pattern) \in C11_Reach(pattern, pathname, Len(pathname))

\* C11: a request whose pathname matches an excludeRoutes pattern is never
\* tracked, even when it matches a trackRoutes pattern too; a request that
\* matches a trackRoutes pattern and no excludeRoutes pattern starts exactly
\* one POST of a 'middleware-request' event to <host>/api/send; a pattern
\* matches the whole pathname, "*" standing for any run of characters.
C11_ExclusionsFirst ==
  mwReturn.what = "returned" =>
    LET excluded == \E i \in 1..Len(ExcludeRoutes) :
                       C11_Matches(ExcludeRoutes[i], mwReturn.pathname)
        wanted == \E i \in 1..Len(TrackRoutes) :
                     C11_Matches(TrackRoutes[i], mwReturn.pathname)
    IN /\ excluded => (~mwReturn.tracked /\ mwReturn.started = 0)
       /\ (wanted /\ ~excluded) =>
            /\ mwReturn.tracked /\ mwReturn.started = 1
            /\ mwReturn.request.url = <<"https://c", "/api/send">>
            /\ mwReturn.request.method = "POST"
            /\ mwReturn.request.type = "event"
            /\ mwReturn.request.payload.name = "middleware-request"
            /\ mwReturn.request.payload.pathname = mwReturn.pathname

\* /a/api matches the track pattern /a* and the exclusion /a/*: not tracked
C11_Witness ==
  /\ mwReturn.what = "returned"
  /\ mwReturn.pathname = <<"/", "a", "/", "api">>
  /\ mwCfg.excludeRoutes = Exclusions(<<<<"/", "a", "/", "*">>>>)
  /\ mwCfg.trackRoutes[1] = <<"/", "a", "*">>
  /\ ~mwReturn.tracked /\ mwReturn.started = 0

\* ---- middleware without track patterns (C21) --------------------------------
\* C21: with no track patterns (trackRoutes empty or omitted) the middleware
\* tracks every request except those whose pathname matches an excluded route.
C21_NoPatternsTracksAll ==
  (mwReturn.what = "returned" /\ Len(TrackRoutes) = 0) =>
    LET excluded == \E i \in 1..Len(ExcludeRoutes) :
                       C11_Matches(ExcludeRoutes[i], mwReturn.pathname)
    IN /\ mwReturn.tracked <=> ~excluded
       /\ mwReturn.started = (IF excluded THEN 0 ELSE 1)

\* =========================================================================
\* usePageView (client/hooks/usePageView.ts)
\* =========================================================================
MaxDeps == 2           \* length of the `deps` option

DepValues == {"a", "b"}
DepLists == SeqsUpTo(DepValues, MaxDeps)

\* options of usePageView; deps = [] and enabled = true when not given
PvProps == {[enabled |-> e, deps |-> d, url |-> "/v"] : e \in BOOLEAN, d \in DepLists}

\* what useEntrolytics() gives the hook; trackView is a new function whenever
\* the provider's send or getPayload changed
PvContexts ==
  {[isReady |-> r, isEnabled |-> e, trackView |-> t] :
     r \in BOOLEAN, e \in BOOLEAN, t \in {"trackView1", "trackView2"}}

\* the effect's dependency list [isReady, isEnabled, enabled, url, referrer,
\* trackView, ...deps]: the six fixed entries and the spread ones
EffectDeps(props, ctx) ==
  [fixed |-> <<ctx.isReady, ctx.isEnabled, props.enabled>>,
   url |-> props.url, trackView |-> ctx.trackView, spread |-> props.deps]

Min(a, b) == IF a < b THEN a ELSE b

\* React's comparison of an effect's dependency lists: entry by entry over the
\* shorter of the two lists (a changed length alone is reported in development
\* builds and otherwise ignored)
HookInputsEqual(next, prev) ==
  /\ next.fixed = prev.fixed /\ next.url = prev.url /\ next.trackView = prev.trackView
  /\ \A i \in 1..Min(Len(next.spread), Len(prev.spread)) : next.spread[i] = prev.spread[i]

\* depsChanged
PvDepsChanged(deps, prevDeps) ==
  /\ Len(deps) > 0
  /\ \/ Len(deps) # Len(prevDeps)
     \/ \E i \in 1..Len(deps) : deps[i] # prevDeps[i]

\* the effect's body: does it call trackView
PvEffectTracks(props, ctx, hasTracked, prevDeps) ==
  /\ ctx.isReady /\ ctx.isEnabled /\ props.enabled
  /\ ~hasTracked \/ PvDepsChanged(props.deps, prevDeps)

\* one render of the component (the first one mounts it), effect included
PvRender(props, ctx) ==
  /\ UNCHANGED <<baseVars, te, wf, rep, plug, hook, moreVars>>
  /\ LET hasTracked == IF pv.mounted THEN pv.hasTrackedRef ELSE FALSE
         prevDeps == IF pv.mounted THEN pv.prevDepsRef ELSE props.deps
         runs == ~pv.mounted \/ ~HookInputsEqual(EffectDeps(props, ctx), pv.effectDeps)
         tracks == runs /\ PvEffectTracks(props, ctx, hasTracked, prevDeps)
     IN pv' = [mounted |-> TRUE, props |-> props, ctx |-> ctx,
               hasTrackedRef |-> (hasTracked \/ tracks),
               prevDepsRef |-> IF tracks THEN props.deps ELSE prevDeps,
               effectDeps |-> EffectDeps(props, ctx),
               ran |-> runs, called |-> tracks,
               hadTracked |-> hasTracked, recorded |-> prevDeps]

InitPageView ==
  /\ BaseIdle /\ MoreIdle
  /\ pv = PvIdle /\ te = TeIdle /\ wf = WfIdle
  /\ rep = RepIdle /\ plug = PlugIdle /\ hook = HookIdle

NextPageView == \E props \in PvProps, ctx \in PvContexts : PvRender(props, ctx)

SpecPageView == InitPageView /\ [][NextPageView]_vars

\* C12: usePageView calls trackView only on a render where the tracker is
\* ready, tracking is enabled and the `enabled` option is true; on such a
\* render it calls trackView exactly when no view was tracked yet or when deps
\* is not empty and differs, in an element or in its length, from the deps
\* recorded at the last tracked view.
C12_TracksOnDepsChange ==
  pv.mounted =>
    LET qualifies == pv.ctx.isReady /\ pv.ctx.isEnabled /\ pv.props.enabled
    IN /\ pv.called => qualifies
       /\ qualifies =>
            (pv.called <=>
               (~pv.hadTracked \/ (pv.props.deps # << >> /\ pv.props.deps # pv.recorded)))

\* ---------------------------------------------------------------------------
\* TrackEvent: a component that tracks one named event on a click, a key
\* press, a submit or when its element becomes visible. te holds the props of
\* the mounted component, the provider values of its last render, its
\* hasTrackedRef, the track calls still awaited and the number of events for
\* which track issued a request.

MaxTeEvents == 3
MaxTeInflight == 2

TeTriggers == {"click", "visible", "submit"}
TeGestures == {"click", "key", "submit", "visible"}

\* what the provider's track does with the call: it issues a request and
\* resolves when the request settles, it resolves without a request (tracking
\* disabled, beforeSend returned a falsy value), or beforeSend throws
TeTrackKinds == {"request", "dropped", "threw"}

TeObserves(trigger, ready) == trigger = "visible" /\ ready

TeMount(once, trigger, wrapped, ready) ==
  /\ ~te.mounted
  /\ te' = [mounted |-> TRUE, once |-> once, trigger |-> trigger, wrapped |-> wrapped,
            isReady |-> ready, track |-> "track1",
            observing |-> TeObserves(trigger, ready),
            hasTrackedRef |-> FALSE, inflight |-> 0, events |-> 0]
  /\ UNCHANGED <<baseVars, pv, wf, rep, plug, hook, moreVars>>

\* a re-render with new provider values: the observer effect is cleaned up and
\* run again when isReady or handleTrack (through track) changed
TeRender(ready, track) ==
  /\ te.mounted
  /\ LET rerun == ready # te.isReady \/ track # te.track
     IN te' = [te EXCEPT !.isReady = ready, !.track = track,
                         !.observing = IF rerun THEN TeObserves(te.trigger, ready)
                                       ELSE te.observing]
  /\ UNCHANGED <<baseVars, pv, wf, rep, plug, hook, moreVars>>

\* the handlers the render attaches for each gesture
TeHandles(gesture) ==
  CASE gesture = "click" -> te.trigger = "click"
    [] gesture = "key" -> te.trigger = "click" /\ te.wrapped
    [] gesture = "submit" -> te.trigger = "submit" /\ ~te.wrapped
    [] gesture = "visible" -> te.observing

\* handleTrack up to its await: the flag is written only after track resolved
handleTrack(how) ==
  IF ~te.isReady \/ (te.once /\ te.hasTrackedRef) THEN te
  ELSE CASE how = "request" -> [te EXCEPT !.inflight = @ + 1, !.events = @ + 1]
         [] how = "dropped" -> [te EXCEPT !.hasTrackedRef = TRUE]
         [] how = "threw" -> te

TeTrigger(gesture, how) ==
  /\ te.mounted
  /\ TeHandles(gesture)
  /\ te.events < MaxTeEvents
  /\ te.inflight < MaxTeInflight
  /\ te' = [handleTrack(how) EXCEPT
              !.observing = IF gesture = "visible" /\ te.once THEN FALSE ELSE @]
  /\ UNCHANGED <<baseVars, pv, wf, rep, plug, hook, moreVars>>

\* an awaited track call resolves: handleTrack continues after its await
TeTrackResolves ==
  /\ te.mounted
  /\ te.inflight > 0
  /\ te' = [te EXCEPT !.inflight = @ - 1, !.hasTrackedRef = TRUE]
  /\ UNCHANGED <<baseVars, pv, wf, rep, plug, hook, moreVars>>

InitTrackEvent ==
  /\ BaseIdle /\ MoreIdle
  /\ pv = PvIdle /\ te = TeIdle /\ wf = WfIdle
  /\ rep = RepIdle /\ plug = PlugIdle /\ hook = HookIdle

NextTrackEvent ==
  \/ \E once \in BOOLEAN, trigger \in TeTriggers, wrapped \in BOOLEAN, ready \in BOOLEAN :
       TeMount(once, trigger, wrapped, ready)
  \/ \E ready \in BOOLEAN, track \in {"track1", "track2"} : TeRender(ready, track)
  \/ \E gesture \in TeGestures, how \in TeTrackKinds : TeTrigger(gesture, how)
  \/ TeTrackResolves

SpecTrackEvent == InitTrackEvent /\ [][NextTrackEvent]_vars

\* C13: a TrackEvent with `once` set issues at most one event over its
\* lifetime, whatever the sequence and timing of its triggers.
C13_OnceTracksAtMostOnce ==
  (te.mounted /\ te.once) => te.events <= 1

\* ---------------------------------------------------------------------------
\* withFormTracking (server/forms.ts): the wrapper around a server action. wf
\* is one invocation of the wrapper: where it is awaiting, what the action
\* did, the form events it has posted and how its own promise settled.

WfConfigs == {c \in ServerConfigs : c.websiteId # None /\ c.linkId = None}

\* what the action does: it resolves with an object whose `success` is absent,
\* true or false, or it rejects with an Error or with another value
WfActionOutcomes ==
  {[kind |-> "resolved", result |-> [id |-> i, success |-> sc],
    error |-> [isError |-> FALSE, message |-> None]] :
     i \in {"r1", "r2"}, sc \in {"absent", "true", "false"}}
  \cup {[kind |-> "rejected", result |-> [id |-> None, success |-> "absent"], error |-> e] :
          e \in {[isError |-> TRUE, message |-> "boom"],
                 [isError |-> FALSE, message |-> "str"]}}

\* the event the wrapper hands to trackServerFormEvent
WfEvent(config, success, errorMessage) ==
  [request |-> ServerRequest("trackServerFormEvent", config),
   eventType |-> "submit", success |-> success, errorMessage |-> errorMessage]

\* result.success ?? true
WfSuccess(result) == IF result.success = "absent" THEN TRUE ELSE result.success = "true"

\* error instanceof Error ? error.message : 'Unknown error'
WfErrorMessage(error) == IF error.isError THEN error.message ELSE "Unknown error"

\* the wrapper is called: everything up to `await action()`
WfInvoke(config) ==
  /\ wf.pc \in {"idle", "settled"}
  /\ wf' = [pc |-> "action", config |-> config, action |-> None, path |-> None,
            events |-> << >>, error |-> None, fetch |-> None, outcome |-> None]
  /\ UNCHANGED <<baseVars, pv, te, rep, plug, hook, moreVars>>

\* the action settles: the try block goes on to post the event, or the catch
\* block posts it; both then await trackServerFormEvent
WfActionSettles(out) ==
  /\ wf.pc = "action"
  /\ wf' = IF out.kind = "resolved"
           THEN [wf EXCEPT !.pc = "tracking", !.action = out, !.path = "try",
                           !.events = Append(@, WfEvent(wf.config, WfSuccess(out.result), None))]
           ELSE [wf EXCEPT !.pc = "tracking", !.action = out, !.path = "catch",
                           !.error = out.error,
                           !.events = Append(@, WfEvent(wf.config, FALSE,
                                                        WfErrorMessage(out.error)))]
  /\ UNCHANGED <<baseVars, pv, te, rep, plug, hook, moreVars>>

\* the awaited trackServerFormEvent settles. In the try block the wrapper
\* returns the result, and an exception there would enter the catch block; in
\* the catch block it throws the error it caught.
WfTrackingSettles(out) ==
  /\ wf.pc = "tracking"
  /\ LET res == ServerSettle(out)
     IN wf' = CASE res.settle = "resolved" /\ wf.path = "try" ->
                     [wf EXCEPT !.pc = "settled", !.fetch = out,
                                !.outcome = [settle |-> "resolved", value |-> wf.action.result]]
                [] res.settle = "resolved" /\ wf.path = "catch" ->
                     [wf EXCEPT !.pc = "settled", !.fetch = out,
                                !.outcome = [settle |-> "rejected", value |-> wf.error]]
                [] res.settle = "rejected" /\ wf.path = "try" ->
                     [wf EXCEPT !.path = "catch", !.fetch = out, !.error = res.value,
                                !.events = Append(@, WfEvent(wf.config, FALSE,
                                                             WfErrorMessage(res.value)))]
                [] OTHER ->
                     [wf EXCEPT !.pc = "settled", !.fetch = out,
                                !.outcome = [settle |-> "rejected", value |-> res.value]]
  /\ UNCHANGED <<baseVars, pv, te, rep, plug, hook, moreVars>>

InitFormTracking ==
  /\ BaseIdle /\ MoreIdle
  /\ pv = PvIdle /\ te = TeIdle /\ wf = WfIdle
  /\ rep = RepIdle /\ plug = PlugIdle /\ hook = HookIdle

NextFormTracking ==
  \/ \E config \in WfConfigs : WfInvoke(config)
  \/ \E out \in WfActionOutcomes : WfActionSettles(out)
  \/ \E out \in ServerOutcomes : WfTrackingSettles(out)

SpecFormTracking == InitFormTracking /\ [][NextFormTracking]_vars

\* C14: an invocation of the wrapper posts exactly one 'submit' form event and
\* settles as the action did: resolved with the action's result, the event's
\* success being result.success (true when absent), or rejected with the
\* action's error, the event's success being false and its errorMessage the
\* error's message ('Unknown error' for a thrown non-Error); what the tracking
\* request did changes none of this.
C14_WrapperPreservesOutcome ==
  /\ wf.pc = "tracking" => Len(wf.events) = 1
  /\ wf.pc = "settled" =>
       /\ Len(wf.events) = 1
       /\ wf.events[1].eventType = "submit"
       /\ wf.events[1].request.url = <<"https://c", "/api/collect/forms">>
       /\ wf.action.kind = "resolved" =>
            /\ wf.outcome = [settle |-> "resolved", value |-> wf.action.result]
            /\ wf.events[1].success = (wf.action.result.success \in {"absent", "true"})
            /\ wf.events[1].errorMessage = None
       /\ wf.action.kind = "rejected" =>
            /\ wf.outcome = [settle |-> "rejected", value |-> wf.action.error]
            /\ wf.events[1].success = FALSE
            /\ wf.events[1].errorMessage =
                 (IF wf.action.error.isError THEN wf.action.error.message
                  ELSE "Unknown error")

\* the action resolved with success: false and the tracking request failed
C14_Witness ==
  /\ wf.pc = "settled"
  /\ wf.action.kind = "resolved"
  /\ wf.action.result.success = "false"
  /\ wf.fetch.kind = "reject"

\* ---------------------------------------------------------------------------
\* createWebVitalsReporter (server/vitals.ts): a reporter with a queue and a
\* debounce timer. rep holds the closure's queue and timeout, the time since
\* the last queued metric, every report made so far and every batch handed to
\* trackServerVitalsBatch. Time is counted in milliseconds and passes in steps
\* of TickMs; a timer never fires early and may fire late.

MaxReports == 3
TickMs == 50
DebounceMs == 100

validMetrics == {"LCP", "INP", "CLS", "TTFB", "FCP"}
ReportedNames == {"LCP", "CLS", "FID"}

NoTimeout == [armed |-> FALSE, remaining |-> 0]
Capped(n) == IF n > DebounceMs THEN DebounceMs ELSE n
Floored(n) == IF n < 0 THEN 0 ELSE n

RepCreate(config) ==
  /\ ~rep.created
  /\ rep' = [created |-> TRUE, config |-> config, queue |-> << >>, timeout |-> NoTimeout,
             sinceQueued |-> DebounceMs, reports |-> << >>, batches |-> << >>]
  /\ UNCHANGED <<baseVars, pv, te, wf, plug, hook, moreVars>>

\* faulty variant: the pending timer is left to fire and no new one is set
ReporterKeepsTimer(name) ==
  LET n == Len(rep.reports) + 1
      seen == Append(rep.reports, [metric |-> name, gap |-> rep.sinceQueued])
  IN IF name \notin validMetrics THEN [rep EXCEPT !.reports = seen]
     ELSE [rep EXCEPT !.reports = seen,
                      !.queue = Append(@, [n |-> n, metric |-> name]),
                      !.timeout = IF @.armed THEN @
                                  ELSE [armed |-> TRUE, remaining |-> DebounceMs],
                      !.sinceQueued = 0]

\* the reporter: the n-th report, of a metric called `name`
Reporter(name) ==
  LET n == Len(rep.reports) + 1
      seen == Append(rep.reports, [metric |-> name, gap |-> rep.sinceQueued])
  IN IF name \notin validMetrics THEN [rep EXCEPT !.reports = seen]
     ELSE [rep EXCEPT !.reports = seen,
                      !.queue = Append(@, [n |-> n, metric |-> name]),
                      !.timeout = [armed |-> TRUE, remaining |-> DebounceMs],
                      !.sinceQueued = 0]

RepReport(name) ==
  /\ rep.created
  /\ Len(rep.reports) < MaxReports
  /\ rep' = Reporter(name)
  /\ UNCHANGED <<baseVars, pv, te, wf, plug, hook, moreVars>>

\* time passes
RepTick ==
  /\ rep.created
  /\ rep' = [rep EXCEPT !.sinceQueued = Capped(@ + TickMs),
                        !.timeout.remaining = Floored(@ - TickMs)]
  /\ UNCHANGED <<baseVars, pv, te, wf, plug, hook, moreVars>>

\* the timer fires and runs flush up to its awaited trackServerVitalsBatch
RepFlush ==
  /\ rep.created
  /\ rep.timeout.armed
  /\ rep.timeout.remaining = 0
  /\ rep' = IF Len(rep.queue) = 0 THEN [rep EXCEPT !.timeout = NoTimeout]
            ELSE [rep EXCEPT !.timeout = NoTimeout,
                             !.queue = << >>,
                             !.batches = Append(@, [request |-> ServerRequest("trackServerVitalsBatch", rep.config),
                                                    vitals |-> rep.queue,
                                                    result |-> "pending"])]
  /\ UNCHANGED <<baseVars, pv, te, wf, plug, hook, moreVars>>

\* the request of a batch settles; trackServerVitalsBatch resolves and flush ends
RepBatchSettles(b, out) ==
  /\ rep.created
  /\ b \in 1..Len(rep.batches)
  /\ rep.batches[b].result = "pending"
  /\ rep' = [rep EXCEPT !.batches[b].result =
                          IF ServerSettle(out).value.ok THEN "ok" ELSE "failed"]
  /\ UNCHANGED <<baseVars, pv, te, wf, plug, hook, moreVars>>

InitVitals ==
  /\ BaseIdle /\ MoreIdle
  /\ pv = PvIdle /\ te = TeIdle /\ wf = WfIdle
  /\ rep = RepIdle /\ plug = PlugIdle /\ hook = HookIdle

NextVitals ==
  \/ \E config \in WfConfigs : RepCreate(config)
  \/ \E name \in ReportedNames : RepReport(name)
  \/ RepTick
  \/ RepFlush
  \/ \E b \in 1..MaxReports, out \in ServerOutcomes : RepBatchSettles(b, out)

SpecVitals == InitVitals /\ [][NextVitals]_vars

\* time passes and a due timer is run by the event loop
SpecVitalsFair == SpecVitals /\ WF_vars(RepTick) /\ WF_vars(RepFlush)

\* the metrics of all batches, in the order they were sent
RECURSIVE C15_Sent(_)
C15_Sent(batches) ==
  IF batches = << >> THEN << >>
  ELSE Head(batches).vitals \o C15_Sent(Tail(batches))

\* the reports with one of the five names, in report order
RECURSIVE C15_Expected(_, _)
C15_Expected(reports, n) ==
  IF n > Len(reports) THEN << >>
  ELSE (IF reports[n].metric \in {"LCP", "INP", "CLS", "TTFB", "FCP"}
        THEN <<[n |-> n, metric |-> reports[n].metric]>> ELSE << >>)
       \o C15_Expected(reports, n + 1)

\* the batch the n-th report went out in, 0 while it is queued
C15_BatchOf(n) ==
  IF \E b \in 1..Len(rep.batches) : \E k \in 1..Len(rep.batches[b].vitals) :
       rep.batches[b].vitals[k].n = n
  THEN CHOOSE b \in 1..Len(rep.batches) : \E k \in 1..Len(rep.batches[b].vitals) :
         rep.batches[b].vitals[k].n = n
  ELSE 0

C15_Safe ==
  rep.created =>
    LET expected == C15_Expected(rep.reports, 1)
    IN /\ C15_Sent(rep.batches) \o rep.queue = expected
       /\ \A b \in 1..Len(rep.batches) : rep.batches[b].vitals # << >>
       /\ \A i \in 1..Len(expected) : i > 1 =>
            (rep.reports[expected[i].n].gap < 100
               => C15_BatchOf(expected[i].n) = C15_BatchOf(expected[i - 1].n))

\* C15: the batches sent so far followed by the queue are exactly the reports
\* named LCP, INP, CLS, TTFB or FCP, once each and in report order, so no other
\* metric is ever sent; a metric reported less than 100 ms after the previous
\* one is in the same batch as it; and every queued metric is eventually sent.
C15_BatchesEveryValidMetric ==
  /\ []C15_Safe
  /\ (rep.created /\ Len(rep.queue) > 0) ~> (rep.created /\ Len(rep.queue) = 0)

\* two metrics reported some time, but less than 100 ms, apart went out in one
\* batch and a metric with another name was reported
C15_Witness ==
  /\ rep.created
  /\ Len(rep.batches) = 1
  /\ Len(rep.batches[1].vitals) = 2
  /\ rep.reports[rep.batches[1].vitals[2].n].gap \in 1..99
  /\ \E n \in 1..Len(rep.reports) : rep.reports[n].metric = "FID"

\* ---------------------------------------------------------------------------
\* withEntrolytics (config plugin): plug holds one application of the plugin,
\* the two configurations it was given and the configuration it returned, with
\* the rewrites and headers functions of that configuration evaluated as the
\* framework evaluates them. A string is the sequence of its pieces, << >> the
\* empty or absent string; env is a set of [key, value] entries.

PluginProxies ==
  {[given |-> FALSE, enabled |-> FALSE, scriptPath |-> << >>, collectPath |-> << >>],
   [given |-> TRUE, enabled |-> FALSE, scriptPath |-> << >>, collectPath |-> << >>],
   [given |-> TRUE, enabled |-> TRUE, scriptPath |-> << >>, collectPath |-> << >>],
   [given |-> TRUE, enabled |-> TRUE, scriptPath |-> <<"/s.js">>, collectPath |-> <<"/c">>]}

PluginConfigs ==
  {[websiteId |-> <<"W">>, host |-> h, proxy |-> px, debug |-> d] :
     h \in {<< >>, <<"https://c">>, <<"https://c", "/">>},
     px \in PluginProxies, d \in BOOLEAN}

UserRewrite(n) == [source |-> <<"/from", n>>, destination |-> <<"/to", n>>]
NoRewrites == [kind |-> "absent", list |-> << >>,
               beforeFiles |-> << >>, afterFiles |-> << >>, fallback |-> << >>]
UserHeader == [source |-> <<"/docs">>, key |-> "X-Frame-Options", value |-> <<"DENY">>]

NextConfigs ==
  {[reactStrictMode |-> TRUE, env |-> e, rewrites |-> rw, headers |-> hd] :
     e \in {{}, {[key |-> "API_URL", value |-> <<"https://api">>]},
            {[key |-> "NEXT_PUBLIC_ENTROLYTICS_WEBSITE_ID", value |-> <<"old">>]}},
     rw \in {NoRewrites,
             [NoRewrites EXCEPT !.kind = "array", !.list = <<UserRewrite(1)>>],
             [NoRewrites EXCEPT !.kind = "object", !.beforeFiles = <<UserRewrite(1)>>,
                                !.afterFiles = <<UserRewrite(2)>>]},
     hd \in {[given |-> FALSE, entries |-> << >>],
             [given |-> TRUE, entries |-> <<UserHeader>>]}}

\* { ...env, [key]: value }
EnvWith(entries, key, value) ==
  {e \in entries : e.key # key} \cup {[key |-> key, value |-> value]}

\* the env block of the returned configuration
PluginMergedEnv(pluginConfig, nextConfig) ==
  LET e1 == EnvWith(nextConfig.env, "NEXT_PUBLIC_ENTROLYTICS_WEBSITE_ID", pluginConfig.websiteId)
      e2 == IF pluginConfig.host # << >>
            THEN EnvWith(e1, "NEXT_PUBLIC_ENTROLYTICS_HOST", pluginConfig.host) ELSE e1
  IN IF pluginConfig.debug THEN EnvWith(e2, "NEXT_PUBLIC_ENTROLYTICS_DEBUG", <<"true">>) ELSE e2

\* a || b on strings
OrString(a, b) == IF a # << >> THEN a ELSE b

\* what setupRewrites resolves with
setupRewrites(pluginConfig, nextConfig) ==
  LET existing == nextConfig.rewrites
      rewrites == IF existing.kind = "array"
                  THEN [NoRewrites EXCEPT !.kind = "object", !.beforeFiles = existing.list]
                  ELSE [existing EXCEPT !.kind = "object"]
      proxy == pluginConfig.proxy
      baseUrl == StripTrailingSlash(pluginConfig.host)
  IN IF proxy.enabled /\ pluginConfig.host # << >>
     THEN [rewrites EXCEPT !.beforeFiles =
             @ \o <<[source |-> OrString(proxy.scriptPath, <<"/analytics.js">>),
                     destination |-> baseUrl \o <<"/script.js">>],
                    [source |-> OrString(proxy.collectPath, <<"/api/collect">>) \o <<"/:path*">>,
                     destination |-> baseUrl \o <<"/api/send">>]>>]
     ELSE rewrites

\* new URL(host).origin of a host given as origin and path
UrlOrigin(host) == <<host[1]>>

\* what setupHeaders resolves with
setupHeaders(pluginConfig, nextConfig) ==
  IF pluginConfig.host # << >>
  THEN Append(nextConfig.headers.entries,
              [source |-> <<"/(.*)">>, key |-> "Content-Security-Policy",
               value |-> <<"connect-src 'self' ">> \o UrlOrigin(pluginConfig.host)
                         \o <<"; script-src 'self' 'unsafe-inline' 'unsafe-eval' ">>
                         \o UrlOrigin(pluginConfig.host) \o <<";">>])
  ELSE nextConfig.headers.entries

\* the configuration withEntrolytics(pluginConfig)(nextConfig) returns
withEntrolytics(pluginConfig, nextConfig) ==
  LET proxy == pluginConfig.proxy
  IN [nextConfig EXCEPT
        !.env = PluginMergedEnv(pluginConfig, nextConfig),
        !.rewrites = IF proxy.given /\ proxy.enabled
                     THEN setupRewrites(pluginConfig, nextConfig) ELSE @,
        !.headers = IF pluginConfig.host # << >> /\ ~nextConfig.headers.given
                    THEN [given |-> TRUE, entries |-> setupHeaders(pluginConfig, nextConfig)]
                    ELSE @]

PlugApply(pluginConfig, nextConfig) ==
  /\ plug' = [applied |-> TRUE, pluginConfig |-> pluginConfig, nextConfig |-> nextConfig,
              result |-> withEntrolytics(pluginConfig, nextConfig)]
  /\ UNCHANGED <<baseVars, pv, te, wf, rep, hook, moreVars>>

InitPlugin ==
  /\ BaseIdle /\ MoreIdle
  /\ pv = PvIdle /\ te = TeIdle /\ wf = WfIdle
  /\ rep = RepIdle /\ plug = PlugIdle /\ hook = HookIdle

NextPlugin ==
  \E pluginConfig \in PluginConfigs, nextConfig \in NextConfigs :
    PlugApply(pluginConfig, nextConfig)

SpecPlugin == InitPlugin /\ [][NextPlugin]_vars

\* the rewrites of a configuration as one list: before the files, after them, fallback
C16_AllRewrites(rw) ==
  IF rw.kind = "array" THEN rw.list ELSE rw.beforeFiles \o rw.afterFiles \o rw.fallback

C16_IsPrefix(a, b) == Len(a) <= Len(b) /\ SubSeq(b, 1, Len(a)) = a

\* C16: the returned configuration keeps the other fields of nextConfig; its
\* env has every existing entry under another key, the website ID, and the
\* host and debug flag when given; with the proxy enabled and a host, the existing rewrites are
\* followed by the script rewrite and the collect rewrite, and with the proxy
\* disabled the rewrites are the user's own; the user's headers are kept and a
\* Content-Security-Policy entry for the analytics origin is there whenever a
\* host is given.
C16_OnlyAdds ==
  plug.applied =>
    LET pc == plug.pluginConfig
        old == plug.nextConfig
        new == plug.result
        on == pc.proxy.given /\ pc.proxy.enabled
    IN /\ new.reactStrictMode = old.reactStrictMode
       /\ \A e \in old.env : e.key # "NEXT_PUBLIC_ENTROLYTICS_WEBSITE_ID" => e \in new.env
       /\ [key |-> "NEXT_PUBLIC_ENTROLYTICS_WEBSITE_ID", value |-> pc.websiteId] \in new.env
       /\ pc.host # << >> =>
            [key |-> "NEXT_PUBLIC_ENTROLYTICS_HOST", value |-> pc.host] \in new.env
       /\ pc.debug => [key |-> "NEXT_PUBLIC_ENTROLYTICS_DEBUG", value |-> <<"true">>] \in new.env
       /\ (on /\ pc.host # << >>) =>
            /\ Len(new.rewrites.beforeFiles) >= 2
            /\ LET n == Len(new.rewrites.beforeFiles)
               IN /\ new.rewrites.beforeFiles[n - 1].destination = <<"https://c", "/script.js">>
                  /\ new.rewrites.beforeFiles[n].destination = <<"https://c", "/api/send">>
                  /\ \A r \in Range(C16_AllRewrites(old.rewrites)) :
                       \/ \E i \in 1..(n - 2) : new.rewrites.beforeFiles[i] = r
                       \/ r \in Range(new.rewrites.afterFiles)
                       \/ r \in Range(new.rewrites.fallback)
       /\ ~on => new.rewrites = old.rewrites
       /\ C16_IsPrefix(old.headers.entries, new.headers.entries)
       /\ pc.host # << >> =>
            \E i \in 1..Len(new.headers.entries) :
              /\ new.headers.entries[i].key = "Content-Security-Policy"
              /\ new.headers.entries[i].value[2] = "https://c"

\* ---------------------------------------------------------------------------
\* Navigation: one provider with autoTrack per combination of excludeSearch and
\* excludeHash, visiting locations that differ in path, query or hash.

NavCfgs ==
  {[BaseCfg EXCEPT !.excludeSearch = xs, !.excludeHash = xh] :
     xs \in BOOLEAN, xh \in BOOLEAN}

NavLocations ==
  {StartLocation, OtherPage,
   [path |-> "/a", search |-> "?q", hash |-> ""],
   [path |-> "/a", search |-> "", hash |-> "#h"]}

InitNavigation ==
  /\ ProviderInit(NavCfgs, {BaseEnv}, MaxSteps)
  /\ ServerIdle /\ AnalyticsIdle /\ ProxyIdle /\ MiddlewareIdle /\ ExtIdle /\ MoreIdle
NextNavigation == ProviderSteps(PlainOutcomes, {"view"}, NavLocations)
SpecNavigation == InitNavigation /\ [][NextNavigation]_vars

\* the URL of a location with the query and the hash stripped as configured
C17_Url(loc) ==
  Part(loc.path) \o (IF cfg.excludeSearch THEN << >> ELSE Part(loc.search))
                 \o (IF cfg.excludeHash THEN << >> ELSE Part(loc.hash))

\* a step is a navigation of a mounted provider with autoTrack on
C17_Navigates == cfg.autoTrack /\ phase = "mounted" /\ location' # location

\* a step is the page view of a navigation going out
C17_PageView == Len(timers') < Len(timers) /\ last'.what = "send" /\ last'.sent

\* C17: a navigation to a different normalized URL records that URL and the
\* previous one as referrer and schedules one page view, and the page view then
\* sent carries the URL of that navigation and as referrer the URL the page had
\* before it; a navigation to the same normalized URL sends nothing and leaves
\* the last-known URL and the referrer alone.
C17_PageViewPerNavigation ==
  [][/\ (C17_Navigates /\ C17_Url(location') # currentUrlRef) =>
          /\ Len(timers') = Len(timers) + 1
          /\ currentUrlRef' = C17_Url(location')
          /\ currentRefRef' = C17_Url(location)
     /\ (C17_Navigates /\ C17_Url(location') = currentUrlRef) =>
          UNCHANGED <<timers, inflight, currentUrlRef, currentRefRef>>
     /\ C17_PageView =>
          /\ last'.req \in inflight'
          /\ last'.req.payload.url = C17_Url(Head(timers).to)
          /\ last'.req.payload.referrer = C17_Url(Head(timers).from)]_vars

\* ---------------------------------------------------------------------------
\* Delivery: a provider and the server helpers side by side, every request
\* able to fail.

DeliveryHelpers == {"trackServerEvent", "trackServerVitalsBatch"}
DeliveryConfigs == {c \in ServerConfigs : c.host = <<"https://c">> /\ c.websiteId # None /\ c.linkId = None}

InitDelivery ==
  /\ ProviderInit({BaseCfg}, {BaseEnv}, MaxConfigSteps)
  /\ srvPending = {} /\ srvDone = Nothing
  /\ AnalyticsIdle /\ ProxyIdle /\ MiddlewareIdle /\ ExtIdle /\ MoreIdle

NextDelivery ==
  \/ ProviderSteps(PlainOutcomes, {"view"}, {OtherPage})
  \/ \E helper \in DeliveryHelpers, config \in DeliveryConfigs : ServerCall(helper, config)
  \/ \E call \in srvPending, out \in ServerOutcomes : ServerFinish(call, out)

SpecDelivery == InitDelivery /\ [][NextDelivery]_vars

\* a step of the provider, a step of the server helpers
C18_ProviderStep == provVars' # provVars /\ UNCHANGED srvVars
C18_ServerStep == srvVars' # srvVars /\ UNCHANGED provVars

\* C18: a step in which a tracking function runs puts at most one request in
\* flight, the one of that call; a step that handles the outcome of a request,
\* failed or not, takes that request away and puts none in flight; no other
\* step issues a request. The same holds for the server helpers.
C18_NoRetry ==
  [][/\ (C18_ProviderStep /\ last'.what = "send") =>
          /\ inflight \subseteq inflight'
          /\ inflight' \ inflight \subseteq {last'.req}
          /\ ~last'.sent => inflight' = inflight
     /\ (C18_ProviderStep /\ last'.what = "response") =>
          /\ inflight' \subseteq inflight
          /\ Cardinality(inflight') = Cardinality(inflight) - 1
     /\ (C18_ProviderStep /\ last'.what = "nothing") => inflight' = inflight
     /\ (C18_ServerStep /\ srvDone'.what = "settled") =>
          /\ srvDone'.call \in srvPending
          /\ srvPending' = srvPending \ {srvDone'.call}
     /\ (C18_ServerStep /\ srvDone'.what # "settled") =>
          /\ srvPending \subseteq srvPending'
          /\ Cardinality(srvPending' \ srvPending) <= 1]_vars

\* a request of the provider and a request of a helper have both failed and
\* nothing is in flight any more
C18_Witness ==
  /\ last.what = "response" /\ last.failed # {}
  /\ inflight = {}
  /\ srvDone.what = "settled" /\ srvDone.fetch.kind = "reject"
  /\ srvPending = {}

\* ---------------------------------------------------------------------------
\* The automatic page view (C19), under SpecProvider.

\* a step is a render whose auto-track effect sent a page view
C19_AutomaticPageView ==
  rendered' # rendered /\ last'.what = "send" /\ last'.via = "effect" /\ last'.sent

\* C19: with autoTrack on, the render in which the provider has become ready
\* sends the automatic page view, and no other render sends one: not the one
\* after setTag, after identify with an ID or after a collector response.
C19_OneAutomaticPageView ==
  [][/\ C19_AutomaticPageView => (~rendered.isReady /\ rendered'.isReady)
     /\ (rendered' # rendered /\ ~rendered.isReady /\ rendered'.isReady
           /\ cfg.autoTrack /\ isEnabled)
          => C19_AutomaticPageView]_vars

\* ---------------------------------------------------------------------------
\* useWebVitals and useFormTracking: hooks that take `config` from the
\* provider's context and post to the collector themselves. hook is the last
\* request one of them issued.

HookCfgs ==
  {BaseCfg,
   [BaseCfg EXCEPT !.host = << >>],
   [BaseCfg EXCEPT !.domains = <<"shop.example">>],
   [BaseCfg EXCEPT !.ignoreLocalhost = TRUE],
   [BaseCfg EXCEPT !.respectDoNotTrack = TRUE]}

HookEnvs ==
  {BaseEnv,
   [BaseEnv EXCEPT !.lsDisabled = TRUE],
   [BaseEnv EXCEPT !.hostname = "localhost"],
   [BaseEnv EXCEPT !.navDnt = "1"]}

\* config.host || 'https://ng.entrolytics.click'
HookHost == IF cfg.host # << >> THEN cfg.host ELSE <<"https://ng.entrolytics.click">>

HookRequest(by, path, what) ==
  [what |-> "request", by |-> by, url |-> HookHost \o <<path>>, method |-> "POST",
   website |-> cfg.websiteId, event |-> what]

\* a web-vitals callback registered by the hook's effect runs trackVital
trackVital(metric) ==
  /\ phase = "mounted"
  /\ rendered.isReady
  /\ hook' = HookRequest("useWebVitals", "/api/collect/vitals", metric)
  /\ UNCHANGED <<baseVars, pv, te, wf, rep, plug, moreVars>>

\* trackStart, trackSubmit and the other form callbacks run trackEvent
trackEvent(eventType) ==
  /\ phase = "mounted"
  /\ hook' = HookRequest("useFormTracking", "/api/collect/forms", eventType)
  /\ UNCHANGED <<baseVars, pv, te, wf, rep, plug, moreVars>>

InitHooks ==
  /\ ProviderInit(HookCfgs, HookEnvs, MaxConfigSteps)
  /\ ServerIdle /\ AnalyticsIdle /\ ProxyIdle /\ MiddlewareIdle /\ ExtIdle /\ MoreIdle

NextHooks ==
  \/ ProviderSteps(PlainOutcomes, {"view"}, {OtherPage})
  \/ \E metric \in {"LCP", "CLS"} : trackVital(metric)
  \/ \E eventType \in {"start", "submit"} : trackEvent(eventType)

SpecHooks == InitHooks /\ [][NextHooks]_vars

\* C20: a hook issues a request only while the provider would send: tracking
\* has not been disabled by a collector response and no restriction (Do Not
\* Track honoured, localhost ignored, hostname outside `domains`, the
\* localStorage flag) applies.
C20_HooksRespectDisabled ==
  [][(hook' # hook /\ hook'.what = "request") => (isEnabled /\ ~Restricted)]_vars

\* =========================================================================
\* composeMiddleware(...middlewares) (server/middleware)
\* =========================================================================
MaxMiddlewares == 3    \* middlewares given to composeMiddleware

\* A response is told by who made it: <<0>> is the caller's initialResponse,
\* <<i>> the one the i-th middleware made; << >> is undefined.
CmUndefined == << >>
CmInitials == {CmUndefined, <<0>>}

\* how a middleware settles: it returns nothing, returns the response it was
\* given (as withEntrolyticsMiddleware does), returns one of its own, or
\* throws / rejects
CmOutcomes == {"nothing", "given", "own", "rejects"}

CmResult(out, i, given) ==
  IF out = "own" THEN <<i>> ELSE IF out = "given" THEN given ELSE CmUndefined

\* faulty variant: the first response a middleware made is kept
CmResponseKeepsFirst(result, response) ==
  IF response # CmUndefined /\ response # <<0>> THEN response
  ELSE IF result # CmUndefined THEN result ELSE response

\* if (result) { response = result }
CmResponse(result, response) ==
  IF result # CmUndefined THEN result ELSE response

\* the loop reaches middleware i with `response`: it calls it and awaits, or
\* the loop is over and the handler returns
CmAdvance(n, i, initial, response, calls, results) ==
  IF i <= n
  THEN [pc |-> "awaiting", n |-> n, i |-> i, initial |-> initial,
        response |-> response, calls |-> Append(calls, [mw |-> i, given |-> response]),
        results |-> results, value |-> CmUndefined]
  ELSE [pc |-> "returned", n |-> n, i |-> i, initial |-> initial,
        response |-> response, calls |-> calls,
        results |-> results, value |-> response]

\* the composed handler is called with a request and initialResponse
CmCall(n, initial) ==
  /\ UNCHANGED <<baseVars, extVars, ph, ft, ol, ct>>
  /\ cm.pc # "awaiting"
  /\ cm' = CmAdvance(n, 1, initial, initial, << >>, << >>)

\* the awaited middleware settles
CmSettles(out) ==
  /\ UNCHANGED <<baseVars, extVars, ph, ft, ol, ct>>
  /\ cm.pc = "awaiting"
  /\ IF out = "rejects"
     THEN cm' = [cm EXCEPT !.pc = "rejected", !.results = Append(cm.results, out)]
     ELSE cm' = CmAdvance(cm.n, cm.i + 1, cm.initial,
                          CmResponse(CmResult(out, cm.i, cm.response), cm.response),
                          cm.calls, Append(cm.results, out))

InitCompose == BaseIdle /\ ExtIdle /\ cm = CmIdle /\ ph = PhIdle /\ ft = FtIdle /\ ol = OlIdle /\ ct = CtIdle

NextCompose ==
  \/ \E n \in 0..MaxMiddlewares, initial \in CmInitials : CmCall(n, initial)
  \/ \E out \in CmOutcomes : CmSettles(out)

SpecCompose == InitCompose /\ [][NextCompose]_vars

\* the most recent non-empty response after the first k middlewares settled:
\* the one made by the last of them that made its own, else the caller's
C22_Latest(k) ==
  LET made == {j \in 1..k : cm.results[j] = "own"}
  IN IF made = {} THEN cm.initial
     ELSE <<CHOOSE j \in made : \A m \in made : m <= j>>

\* the middlewares run in argument order, one at a time, each given the most
\* recent non-empty response
C22_InOrder ==
  /\ Len(cm.calls) <= cm.n
  /\ Len(cm.calls) = (IF cm.pc = "awaiting" THEN Len(cm.results) + 1 ELSE Len(cm.results))
  /\ \A k \in 1..Len(cm.calls) :
       /\ cm.calls[k].mw = k
       /\ cm.calls[k].given = C22_Latest(k - 1)

\* C22 as stated: composeMiddleware runs the middlewares strictly in argument
\* order, each started only after the previous one settled and given the most
\* recent non-empty response (initially the caller's); every middleware is
\* run, and the composed handler returns the last non-empty result, or the
\* initial response when every middleware returned nothing.
C22_RunsEveryMiddleware ==
  cm.pc # "idle" =>
    /\ C22_InOrder
    /\ cm.pc # "awaiting" =>
         /\ cm.pc = "returned"
         /\ Len(cm.calls) = cm.n
         /\ cm.value = C22_Latest(cm.n)

\* C22, amended: the same as long as no middleware throws or rejects; when
\* one does, the composed handler rejects and the later ones are not run.
C22_RunsUntilRejection ==
  cm.pc # "idle" =>
    /\ C22_InOrder
    /\ \A k \in 1..(Len(cm.results) - 1) : cm.results[k] # "rejects"
    /\ cm.pc = "returned" =>
         /\ Len(cm.calls) = cm.n
         /\ \A k \in 1..cm.n : cm.results[k] # "rejects"
         /\ cm.value = C22_Latest(cm.n)
    /\ cm.pc = "rejected" =>
         /\ cm.results[Len(cm.results)] = "rejects"
         /\ Len(cm.calls) = Len(cm.results)
    /\ (cm.pc = "awaiting" /\ cm.results # << >>) =>
         cm.results[Len(cm.results)] # "rejects"

\* three middlewares, the first two make a response, the third returns
\* nothing: all three ran, the third was given the second's response, which
\* is what the handler returned
C22_Witness ==
  /\ cm.pc = "returned" /\ cm.n = 3
  /\ cm.results = <<"own", "own", "nothing">>
  /\ cm.calls[3].given = <<2>>
  /\ cm.value = <<2>>

\* =========================================================================
\* The proxy's handlers as a whole: createProxyHandler's GET and POST and
\* createScriptProxy's handler (server/proxy)
\* =========================================================================
PhHandlers == {"GET", "POST", "script"}

\* url.pathname of a GET, in tokens
PhPathnames ==
  {<<"/api/collect">>, <<"/api/collect", "/script.js">>, <<"/api/collect", "/p">>,
   <<"/x.js">>}

\* url.pathname.replace(/^\/api\/collect/, '')
PhPath(pathname) ==
  IF pathname # << >> /\ Head(pathname) = "/api/collect" THEN Tail(pathname) ELSE pathname

\* path || '/script.js'
PhGetPath(path) == IF path = << >> THEN <<"/script.js">> ELSE path

\* path.endsWith('.js')
PhEndsWithJs(path) == path # << >> /\ path[Len(path)] \in {"/script.js", "/x.js"}

\* the text of a script: code and data-website-id="..." attributes
PhIdAttr(id) == [attr |-> TRUE, id |-> id]
PhCode == [attr |-> FALSE, id |-> "code"]

\* content.replace(/data-website-id="[^"]*"/g, `data-website-id="${websiteId}"`)
PhReplace(content) ==
  [i \in 1..Len(content) |->
     IF content[i].attr THEN PhIdAttr(pxCfg.websiteId) ELSE content[i]]

NotJson == [kind |-> "invalid", members |-> << >>]

\* what the collector does with the forwarded request: the fetch rejects,
\* or it answers and its body cannot be read, or it answers with a body
PhTexts == {<< >>, <<PhCode>>, <<PhCode, PhIdAttr("X")>>, <<PhIdAttr("X"), PhCode, PhIdAttr("Y")>>}
PhJsons ==
  {NotJson,
   [kind |-> "null", members |-> << >>],
   [kind |-> "object", members |-> <<[key |-> "type", type |-> "event", payload |-> PAbsent]>>]}

PhUpstreams ==
  {[kind |-> "reject", status |-> 0, text |-> << >>, data |-> NotJson],
   [kind |-> "unreadable", status |-> 200, text |-> << >>, data |-> NotJson],
   [kind |-> "body", status |-> 204, text |-> << >>, data |-> NotJson]}
  \cup {[kind |-> "body", status |-> st, text |-> t, data |-> NotJson] :
          st \in {200, 404}, t \in PhTexts}
  \cup {[kind |-> "body", status |-> st, text |-> << >>, data |-> d] :
          st \in {200, 400}, d \in PhJsons}

\* a status for which the Response constructor refuses a body
NullBodyStatus(status) == status \in {101, 204, 205, 304}

PhResponse(status, text, data, cacheControl) ==
  [settle |-> "resolved", status |-> status, text |-> text, data |-> data,
   cacheControl |-> cacheControl]

PhRejects == [settle |-> "rejected", status |-> 0, text |-> << >>, data |-> NotJson,
              cacheControl |-> None]

\* faulty variant: nothing around the awaits catches
PhCatchNothing(handler) == PhRejects

\* the catch blocks
PhCatch(handler) ==
  PhResponse(502, IF handler = "script" THEN <<"// Script unavailable">> ELSE <<"Proxy error">>,
             NotJson, None)

\* the try block after the awaited fetch: it throws, or makes the response
PhTryThrows(handler, path, up) ==
  \/ up.kind \in {"reject", "unreadable"}
  \/ handler = "POST" /\ up.data = NotJson
  \/ handler # "POST" /\ NullBodyStatus(up.status)

PhTry(handler, path, up) ==
  IF handler = "POST"
  THEN PhResponse(up.status, << >>, JsonStringify(JsonParse(up.data)), "no-store")
  ELSE PhResponse(up.status,
                  IF handler = "GET" /\ CloakApplies /\ PhEndsWithJs(path)
                  THEN PhReplace(up.text) ELSE up.text,
                  NotJson, "public, max-age=86400")

\* a handler is called: POST may fail before its fetch; otherwise the
\* handler awaits the collector
PhReceive(handler, pathname, raw, strict) ==
  /\ UNCHANGED <<baseVars, extVars, cm, ft, ol, ct>>
  /\ ph.pc # "awaiting"
  /\ LET path == PhPath(pathname)
         call == [handler |-> handler, path |-> path, raw |-> raw,
                  fetch |-> StripTrailingSlash(pxCfg.host)
                            \o (IF handler = "POST" THEN <<"/api/send">>
                                ELSE IF handler = "GET" THEN PhGetPath(path)
                                ELSE <<"/script.js">>)]
     IN IF handler = "POST" /\ PostThrows(raw, strict)
        THEN ph' = [pc |-> "answered", call |-> call, fetched |-> FALSE,
                    up |-> [kind |-> "none", status |-> 0, text |-> << >>, data |-> NotJson],
                    response |-> PhCatch(handler)]
        ELSE ph' = [pc |-> "awaiting", call |-> call, fetched |-> TRUE,
                    up |-> [kind |-> "none", status |-> 0, text |-> << >>, data |-> NotJson],
                    response |-> PhRejects]

\* the collector answers, or the fetch fails, and the handler settles
PhAnswer(up) ==
  /\ UNCHANGED <<baseVars, extVars, cm, ft, ol, ct>>
  /\ ph.pc = "awaiting"
  /\ ph' = [ph EXCEPT !.pc = "answered", !.up = up,
              !.response = IF PhTryThrows(ph.call.handler, ph.call.path, up)
                           THEN PhCatch(ph.call.handler)
                           ELSE PhTry(ph.call.handler, ph.call.path, up)]

PhBodies == {b \in ClientBodies : Len(b.members) <= 1}

InitProxyHandlers ==
  /\ ProviderIdle /\ ServerIdle /\ AnalyticsIdle /\ MiddlewareIdle /\ ExtIdle
  /\ pxCfg \in ProxyCfgs /\ pxPending = 0 /\ pxDone = Nothing
  /\ cm = CmIdle /\ ph = PhIdle /\ ft = FtIdle /\ ol = OlIdle /\ ct = CtIdle

NextProxyHandlers ==
  \/ \E handler \in PhHandlers, pathname \in PhPathnames, raw \in PhBodies,
        strict \in BOOLEAN :
       /\ handler # "GET" => pathname = <<"/api/collect">>
       /\ handler # "POST" => (raw = NotJson /\ strict)
       /\ PhReceive(handler, pathname, raw, strict)
  \/ \E up \in PhUpstreams :
       /\ ph.pc = "awaiting"
       /\ (up.data # NotJson) => ph.call.handler = "POST"
       /\ PhAnswer(up)

SpecProxyHandlers == InitProxyHandlers /\ [][NextProxyHandlers]_vars

\* the fetch failed, or the upstream body could not be read (for POST: could
\* not be read as JSON)
C23_UpstreamFails ==
  \/ ph.up.kind \in {"reject", "unreadable"}
  \/ ph.call.handler = "POST" /\ ph.up.data = NotJson

\* the answer has the upstream's body (for POST: the same JSON value)
C23_UpstreamBody ==
  IF ph.call.handler = "POST"
  THEN JsonParse(ph.response.data) = JsonParse(ph.up.data)
  ELSE ph.response.text = ph.up.text

\* the upstream's script with every data-website-id attribute set to the
\* configured website ID
C23_Rewritten ==
  /\ Len(ph.response.text) = Len(ph.up.text)
  /\ \A i \in 1..Len(ph.up.text) :
       IF ph.up.text[i].attr
       THEN ph.response.text[i] = PhIdAttr(pxCfg.websiteId)
       ELSE ph.response.text[i] = ph.up.text[i]

TenantIds == {[websiteId |-> w, linkId |-> l, pixelId |-> x] :
                w \in {None, "W"}, l \in {None, "L"}, x \in {None, "P"}}

TenantCfgs ==
  {[BaseCfg EXCEPT !.websiteId = t.websiteId, !.linkId = t.linkId, !.pixelId = t.pixelId] :
     t \in TenantIds}

TenantServerConfigs ==
  {[host |-> <<"https://c">>, websiteId |-> t.websiteId, linkId |-> t.linkId,
    pixelId |-> t.pixelId] : t \in TenantIds}

InitTenant ==
  /\ ProviderInit(TenantCfgs, {BaseEnv}, MaxConfigSteps)
  /\ srvPending = {} /\ srvDone = Nothing
  /\ AnalyticsIdle /\ ProxyIdle /\ MiddlewareIdle /\ ExtIdle /\ MoreIdle

\* the collector accepts everything; one server call at a time
TenantOutcomes == {Outcome("json", 200, Data(FALSE, "c1"))}
TenantServerOutcomes == {out \in ServerOutcomes : out.status = 200}

NextTenant ==
  \/ ProviderSteps(TenantOutcomes, TrackForms, {OtherPage})
  \/ \E config \in TenantServerConfigs :
       srvPending = {} /\ ServerCall("trackServerEvent", config)
  \/ \E call \in srvPending, out \in TenantServerOutcomes : ServerFinish(call, out)

SpecTenant == InitTenant /\ [][NextTenant]_vars

\* the tenant field a configuration calls for: the first configured of
\* websiteId, linkId, pixelId
C24_Expected(config) ==
  LET ids == <<[key |-> "website", value |-> config.websiteId],
               [key |-> "link", value |-> config.linkId],
               [key |-> "pixel", value |-> config.pixelId]>>
      set == {i \in 1..3 : ids[i].value # None}
  IN IF set = {} THEN [key |-> None, value |-> None]
     ELSE ids[CHOOSE i \in set : \A j \in set : i <= j]

C24_Fields(payload) == {k \in {"website", "link", "pixel"} : payload[k] # None}

C24_PayloadOk(payload) ==
  LET want == C24_Expected(cfg)
  IN IF want.key = None THEN C24_Fields(payload) = {}
     ELSE C24_Fields(payload) = {want.key} /\ payload[want.key] = want.value

\* C24: every payload sent by the provider or by trackServerEvent carries at
\* most one of website, link, pixel, chosen with precedence websiteId over
\* linkId over pixelId, and exactly one whenever an ID is configured, for
\* every call form of track.
C24_OneTenantField ==
  /\ \A r \in inflight : C24_PayloadOk(r.payload)
  /\ \A call \in srvPending :
       \E config \in TenantServerConfigs :
         /\ call = ServerRequest("trackServerEvent", config)
         /\ call.tenant = C24_Expected(config)
  /\ \A config \in TenantServerConfigs :
       ServerRequest("trackServerEvent", config).tenant = C24_Expected(config)

\* =========================================================================
\* useFormTracking: the session kept in stateRef (client/hooks/useFormTracking)
\* =========================================================================
MaxFormEvents == 6     \* form events sent in a run

FtFields == {"email", "name"}

\* stateRef's initial value, and the one trackSubmit puts back
FtFresh(form) ==
  [form EXCEPT !.startTime = None, !.fieldStartTimes = {}, !.hasInteracted = FALSE,
               !.lastFieldName = None]

\* trackEvent(data) as far as the session goes: one more event is posted
FtTrackEvent(form, eventType) == [form EXCEPT !.sent = Append(@, eventType)]

trackStart(form) ==
  IF form.startTime # None THEN form
  ELSE FtTrackEvent([form EXCEPT !.startTime = "now"], "start")

trackFieldFocus(form, fieldName) ==
  LET started == IF ~form.hasInteracted
                 THEN trackStart([form EXCEPT !.hasInteracted = TRUE])
                 ELSE form
      timed == IF form.trackTiming
               THEN [started EXCEPT !.fieldStartTimes = @ \cup {fieldName}]
               ELSE started
  IN FtTrackEvent([timed EXCEPT !.lastFieldName = fieldName], "field_focus")

trackFieldBlur(form, fieldName) == FtTrackEvent(form, "field_blur")

trackFieldError(form, fieldName) == FtTrackEvent(form, "field_error")

\* faulty variant: the session is not reset
trackSubmitKeepsSession(form) == FtTrackEvent(form, "submit")

trackSubmit(form) == FtFresh(FtTrackEvent(form, "submit"))

trackAbandon(form) ==
  IF ~form.hasInteracted THEN form ELSE FtTrackEvent(form, "abandon")

\* the beforeunload listener, installed when trackAbandonment is on
handleBeforeUnload(form) ==
  IF form.trackAbandonment /\ form.hasInteracted /\ form.startTime # None
  THEN trackAbandon(form) ELSE form

FtCalls == {"trackStart", "trackFieldFocus", "trackFieldBlur", "trackFieldError",
            "trackSubmit", "trackAbandon", "beforeunload"}

FtApply(call, form, fieldName) ==
  CASE call = "trackStart" -> trackStart(form)
    [] call = "trackFieldFocus" -> trackFieldFocus(form, fieldName)
    [] call = "trackFieldBlur" -> trackFieldBlur(form, fieldName)
    [] call = "trackFieldError" -> trackFieldError(form, fieldName)
    [] call = "trackSubmit" -> trackSubmit(form)
    [] call = "trackAbandon" -> trackAbandon(form)
    [] call = "beforeunload" -> handleBeforeUnload(form)

\* the component calls one of the hook's functions, or the page is left
FtCall(call, fieldName) ==
  /\ UNCHANGED <<baseVars, extVars, cm, ph, ol, ct>>
  /\ ft.mounted
  /\ Len(FtApply(call, ft, fieldName).sent) <= MaxFormEvents
  /\ ft' = [FtApply(call, ft, fieldName) EXCEPT !.focused =
              IF call = "trackSubmit" THEN FALSE
              ELSE IF call = "trackFieldFocus" THEN TRUE ELSE @]

\* the component mounts with its options
FtMount(trackTiming, trackAbandonment) ==
  /\ UNCHANGED <<baseVars, extVars, cm, ph, ol, ct>>
  /\ ~ft.mounted
  /\ ft' = [mounted |-> TRUE, trackTiming |-> trackTiming,
            trackAbandonment |-> trackAbandonment,
            startTime |-> None, fieldStartTimes |-> {}, hasInteracted |-> FALSE,
            lastFieldName |-> None, sent |-> << >>, focused |-> FALSE]

InitFormHook == BaseIdle /\ ExtIdle /\ cm = CmIdle /\ ph = PhIdle /\ ft = FtIdle /\ ol = OlIdle /\ ct = CtIdle

NextFormHook ==
  \/ \E trackTiming \in BOOLEAN, trackAbandonment \in BOOLEAN :
       FtMount(trackTiming, trackAbandonment)
  \/ \E call \in FtCalls, fieldName \in FtFields : FtCall(call, fieldName)

SpecFormHook == InitFormHook /\ [][NextFormHook]_vars

\* no submit among the events i+1 .. j-1
C25_SameSession(i, j) ==
  \A k \in (i + 1)..(j - 1) : ft.sent[k] # "submit"

\* C25: between two submits at most one 'start' is sent, and it is sent
\* before the first 'field_focus' of that session; after a submit the next
\* focus sends a new 'start'; an 'abandon' is sent only if a field was
\* focused since the last submit.
C25_SessionEvents ==
  ft.mounted =>
    LET n == Len(ft.sent)
    IN /\ \A i \in 1..n, j \in 1..n :
            (i < j /\ ft.sent[i] = "start" /\ ft.sent[j] = "start") => ~C25_SameSession(i, j)
       /\ \A j \in 1..n :
            ft.sent[j] = "field_focus" =>
              \E i \in 1..(j - 1) : ft.sent[i] = "start" /\ C25_SameSession(i, j)
       /\ \A j \in 1..n :
            ft.sent[j] = "abandon" =>
              \E i \in 1..(j - 1) : ft.sent[i] = "field_focus" /\ C25_SameSession(i, j)
       /\ (n > 0 /\ ft.sent[n] = "abandon") => ft.focused

\* a session with a focus is submitted, the next focus starts a new session,
\* which is then abandoned
C25_Witness ==
  /\ ft.mounted
  /\ ft.sent = <<"start", "field_focus", "submit", "start", "field_focus", "abandon">>

\* =========================================================================
\* <OutboundLink> (client/components/OutboundLink) and the provider's
\* document listener for outbound links
\* =========================================================================
\* a click: the link's props, what the context gave its last render, and
\* the mouse event
OlTargets == {None, "_blank", "_top"}
OlGestures == {"plain", "ctrl", "shift", "meta", "middle"}

OlLinks ==
  {[target |-> t, hasOnClick |-> h, otherHost |-> o, isReady |-> r,
    trackOutboundLinks |-> a, tracking |-> k] :
     t \in OlTargets, h \in BOOLEAN, o \in BOOLEAN, r \in BOOLEAN, a \in BOOLEAN,
     k \in BOOLEAN}

\* faulty variant: only target="_blank" counts as opening elsewhere
OlIsExternalByTarget(link, gesture) == link.target = "_blank"

\* props.target === '_blank' || e.ctrlKey || e.shiftKey || e.metaKey ||
\* (e.button && e.button === 1)
OlIsExternal(link, gesture) ==
  link.target = "_blank" \/ gesture \in {"ctrl", "shift", "meta", "middle"}

\* trackOutboundLink(...) -> send: a request goes out unless tracking is
\* disabled
OlRequests(link) == IF link.tracking THEN 1 ELSE 0

\* the provider's capture-phase listener on document: it tracks a click on a
\* link to another host
OlListenerTracks(link) == link.trackOutboundLinks /\ link.otherHost

\* onClick?.(e)
OlOnClick(link) == IF link.hasOnClick THEN 1 ELSE 0

\* The click event is dispatched: the document listener, then handleClick
\* up to its await or to its end.
OlClick(link, gesture) ==
  /\ UNCHANGED <<baseVars, extVars, cm, ph, ft, ct>>
  /\ ol.pc # "awaiting"
  /\ LET byListener == IF OlListenerTracks(link) THEN OlRequests(link) ELSE 0
         awaits == link.isReady /\ ~OlIsExternal(link, gesture)
         byComponent == IF link.isReady THEN OlRequests(link) ELSE 0
     IN ol' = [pc |-> IF awaits THEN "awaiting" ELSE "done",
               link |-> link, gesture |-> gesture,
               prevented |-> awaits,
               calls |-> IF link.isReady THEN 1 ELSE 0,
               requests |-> byListener + byComponent,
               settled |-> None,
               navigated |-> None,
               onClick |-> IF awaits THEN 0 ELSE OlOnClick(link)]

\* The awaited trackOutboundLink settles, its request having failed or not
\* (or none having been sent), and handleClick goes on: it navigates and
\* calls onClick, unless the await threw.
OlTrackSettles(out) ==
  /\ UNCHANGED <<baseVars, extVars, cm, ph, ft, ct>>
  /\ ol.pc = "awaiting"
  /\ LET how == IF ol.link.tracking THEN SendSettles(out) ELSE "resolved"
     IN ol' = [ol EXCEPT
          !.pc = "done",
          !.settled = IF ~ol.link.tracking THEN "skipped"
                      ELSE IF how = "rejected" THEN "rejected"
                      ELSE IF FailureKinds(out) # {} THEN "failed" ELSE "succeeded",
          !.navigated = IF how = "rejected" THEN None
                        ELSE IF ol.link.target = "_top" THEN "top" ELSE "window",
          !.onClick = IF how = "rejected" THEN 0 ELSE OlOnClick(ol.link)]

InitOutboundLink ==
  /\ BaseIdle /\ ExtIdle /\ cm = CmIdle /\ ph = PhIdle /\ ft = FtIdle /\ ol = OlIdle /\ ct = CtIdle

NextOutboundLink ==
  \/ \E link \in OlLinks, gesture \in OlGestures : OlClick(link, gesture)
  \/ \E out \in PlainOutcomes : OlTrackSettles(out)

SpecOutboundLink == InitOutboundLink /\ [][NextOutboundLink]_vars

\* a click that opens the link elsewhere: target _blank, a modifier key or
\* the middle button
C26_OpensElsewhere ==
  ol.link.target = "_blank" \/ ol.gesture # "plain"

\* C26: for a plain same-tab click while the tracker is ready the default
\* navigation is prevented and the navigation to href happens only after the
\* tracking call settled, and it happens whether the request succeeded or
\* failed; for a click that opens elsewhere tracking is started without
\* delaying or preventing navigation; the caller's onClick is invoked once.
C26_TrackThenNavigate ==
  ol.pc # "idle" =>
    /\ (ol.link.isReady /\ ~C26_OpensElsewhere) =>
         /\ ol.prevented
         /\ ol.calls = 1
         /\ ol.navigated # None => ol.settled # None
         /\ ol.pc = "done" =>
              /\ ol.settled \in {"succeeded", "failed", "skipped"}
              /\ ol.navigated = (IF ol.link.target = "_top" THEN "top" ELSE "window")
    /\ (ol.link.isReady /\ C26_OpensElsewhere) =>
         /\ ~ol.prevented
         /\ ol.calls = 1
         /\ ol.pc = "done" /\ ol.settled = None /\ ol.navigated = None
    /\ ol.onClick <= 1
    /\ (ol.pc = "done" /\ ol.link.hasOnClick) => ol.onClick = 1

\* a plain click on a ready link whose tracking request failed: the page
\* went to href all the same, and onClick was called
C26_Witness ==
  /\ ol.pc = "done" /\ ol.link.isReady /\ ol.gesture = "plain" /\ ol.link.target = None
  /\ ol.prevented /\ ol.settled = "failed" /\ ol.navigated = "window"
  /\ ol.link.hasOnClick /\ ol.onClick = 1

\* C27: one click on an outbound link produces at most one outbound-link
\* event, also when the provider's automatic outbound-link tracking is on
\* and the clicked link is an OutboundLink component.
C27_OneEventPerClick ==
  ol.pc # "idle" => ol.requests <= 1

\* =========================================================================
\* The provider's cache token across identify: cacheRef, the requests of
\* send numbered in the order they were issued, and their responses
\* =========================================================================
MaxCacheRequests == 4  \* requests issued in a run

\* the calls that reach send: track and the like, identify with a string
\* ID, identify with data only
CtKinds == {"track", "identifyId", "identifyData"}

\* the collector's token in answer to request n: different for every answer
CtToken(n) == ToString(n)

\* the fetch of request n is rejected, or answered with a fresh token, or
\* answered without one
CtOutcomes(n) ==
  {Outcome("reject", 0, NullData), Outcome("json", 200, Data(FALSE, CtToken(n))),
   Outcome("json", 200, Data(FALSE, None))}

\* the provider mounts: no token yet
CtMount ==
  /\ UNCHANGED <<baseVars, extVars, cm, ph, ft, ol>>
  /\ ~ct.mounted
  /\ ct' = [mounted |-> TRUE, cacheRef |-> None, identifies |-> 0, sent |-> << >>,
            pending |-> {}]

\* a tracking function runs up to the fetch call of send; identify with a
\* string ID sets cacheRef.current = undefined first
CtSend(kind) ==
  /\ UNCHANGED <<baseVars, extVars, cm, ph, ft, ol>>
  /\ ct.mounted
  /\ Len(ct.sent) < MaxCacheRequests
  /\ LET cache == IF kind = "identifyId" THEN None ELSE ct.cacheRef
         identifies == IF kind = "identifyId" THEN ct.identifies + 1 ELSE ct.identifies
     IN ct' = [ct EXCEPT
          !.cacheRef = cache,
          !.identifies = identifies,
          !.sent = Append(@, [kind |-> kind, identifies |-> identifies,
                              cacheHeader |-> CacheHeader(cache)]),
          !.pending = @ \cup {Len(ct.sent) + 1}]

\* the fetch of request n settles and send handles the outcome
CtRespond(n, out) ==
  /\ UNCHANGED <<baseVars, extVars, cm, ph, ft, ol>>
  /\ ct.mounted
  /\ n \in ct.pending
  /\ ct' = [ct EXCEPT !.cacheRef = ResponseCache(out, ct.cacheRef),
                      !.pending = @ \ {n}]

InitCacheToken ==
  /\ BaseIdle /\ ExtIdle
  /\ cm = CmIdle /\ ph = PhIdle /\ ft = FtIdle /\ ol = OlIdle /\ ct = CtIdle

NextCacheToken ==
  \/ CtMount
  \/ \E kind \in CtKinds : CtSend(kind)
  \/ \E n \in 1..MaxCacheRequests :
       ct.mounted /\ n \in ct.pending /\ \E out \in CtOutcomes(n) : CtRespond(n, out)

SpecCacheToken == InitCacheToken /\ [][NextCacheToken]_vars

\* the request in answer to which token t was issued
C28_AnswerTo(t) == CHOOSE n \in 1..Len(ct.sent) : CtToken(n) = t

\* C28: the request of an identify with a string ID carries no
\* x-entrolytics-cache header, and no request sent after it carries a token
\* that the collector issued in answer to a request sent before it, also
\* when that answer arrives after the identify call.
C28_IdentifyResetsToken ==
  ct.mounted =>
    \A n \in 1..Len(ct.sent) :
      /\ ct.sent[n].kind = "identifyId" => ct.sent[n].cacheHeader = None
      /\ ct.sent[n].cacheHeader # None =>
           ct.sent[C28_AnswerTo(ct.sent[n].cacheHeader)].identifies = ct.sent[n].identifies
====
